---- MODULE Spec2Model ----
(***************************************************************************)
(* The scan -> normalize -> apply pipeline of the AeroLogix backend:       *)
(* backend/services/ocr_service.py (extraction client, response cleaning,  *)
(* schema normalisation), backend/routes/ocr.py (scan lifecycle, quota,    *)
(* fan-out) and backend/models/ocr_scan.py (response models).              *)
(*                                                                         *)
(* Python values are tagged records, so that None, numbers, strings,       *)
(* booleans, lists and dicts stay distinguishable: a dict is a function    *)
(* from key strings to tagged values, and a key that is missing differs    *)
(* from a key that is present with the value None.  Floats are modelled    *)
(* by integers (1600 stands for 1600.0).                                   *)
(***************************************************************************)
EXTENDS Integers, Sequences, FiniteSets, TLC

Null == [t |-> "null"]
Num(n) == [t |-> "num", v |-> n]
Str(s) == [t |-> "str", v |-> s]
Bool(b) == [t |-> "bool", v |-> b]
Lst(q) == [t |-> "list", v |-> q]
Obj(f) == [t |-> "obj", v |-> f]
EmptyDict == [k \in {} |-> Null]

\* dict.get(k) and dict.get(k, default)
Get(d, k) == IF k \in DOMAIN d THEN d[k] ELSE Null
GetD(d, k, dflt) == IF k \in DOMAIN d THEN d[k] ELSE dflt

\* Python truthiness, as used by if x, not x and a or b
Truthy(x) ==
    CASE x.t = "null" -> FALSE
      [] x.t = "num" -> x.v # 0
      [] x.t = "str" -> x.v # ""
      [] x.t = "bool" -> x.v
      [] x.t = "list" -> Len(x.v) > 0
      [] x.t = "obj" -> DOMAIN x.v # {}
      [] OTHER -> TRUE

PyOr(a, b) == IF Truthy(a) THEN a ELSE b

\* The outcome of an evaluation that may raise
Ok(x) == [ok |-> TRUE, val |-> x, err |-> ""]
Raise(e) == [ok |-> FALSE, val |-> Null, err |-> e]

(***************************************************************************)
(* float(value) on strings: the strings of the model that Python's float() *)
(* accepts, with their values; every other string raises ValueError.       *)
(***************************************************************************)
FloatStrings == {"1600.0", "4"}
FloatOfString(s) == IF s = "1600.0" THEN 1600 ELSE 4

\* OCRService._safe_float
safe_float(value) ==
    CASE value.t = "null" -> Null
      [] value.t = "num" -> value
      [] value.t = "bool" -> Num(IF value.v THEN 1 ELSE 0)
      [] value.t = "str" -> IF value.v \in FloatStrings
                            THEN Num(FloatOfString(value.v))
                            ELSE Null
      [] OTHER -> Null

(***************************************************************************)
(* for x in coll, where the body calls x.get(...): iterating None, a       *)
(* number or a boolean raises TypeError; an item that is no dict (the      *)
(* characters of a non-empty string and the keys of a non-empty dict       *)
(* included) raises AttributeError.  The value is the sequence of dicts.   *)
(***************************************************************************)
IterItems(coll) ==
    CASE coll.t = "list" ->
            IF \A i \in 1..Len(coll.v) : coll.v[i].t = "obj"
            THEN Ok([i \in 1..Len(coll.v) |-> coll.v[i].v])
            ELSE Raise("AttributeError")
      [] coll.t = "str" -> IF coll.v = "" THEN Ok(<<>>) ELSE Raise("AttributeError")
      [] coll.t = "obj" -> IF DOMAIN coll.v = {} THEN Ok(<<>>) ELSE Raise("AttributeError")
      [] OTHER -> Raise("TypeError")

\* The per-directive normalizer without the default of the status
TransformAdsbNoStatusDefault(ref) ==
    [adsb_type |-> GetD(ref, "adsb_type", Str("AD")),
     reference_number |-> GetD(ref, "reference_number", Str("")),
     status |-> Get(ref, "status"),
     compliance_date |-> Get(ref, "compliance_date"),
     airframe_hours |-> safe_float(Get(ref, "airframe_hours")),
     engine_hours |-> safe_float(Get(ref, "engine_hours")),
     propeller_hours |-> safe_float(Get(ref, "propeller_hours")),
     description |-> Get(ref, "description")]

\* The items of the three comprehensions of OCRService._transform_maintenance_report
TransformAdsb(ref) ==
    [adsb_type |-> GetD(ref, "adsb_type", Str("AD")),
     reference_number |-> GetD(ref, "reference_number", Str("")),
     status |-> GetD(ref, "status", Str("UNKNOWN")),
     compliance_date |-> Get(ref, "compliance_date"),
     airframe_hours |-> safe_float(Get(ref, "airframe_hours")),
     engine_hours |-> safe_float(Get(ref, "engine_hours")),
     propeller_hours |-> safe_float(Get(ref, "propeller_hours")),
     description |-> Get(ref, "description")]

TransformPart(part) ==
    [part_number |-> GetD(part, "part_number", Str("")),
     name |-> Get(part, "name"),
     serial_number |-> Get(part, "serial_number"),
     quantity |-> GetD(part, "quantity", Num(1)),
     price |-> safe_float(Get(part, "price")),
     supplier |-> Get(part, "supplier")]

TransformStc(stc) ==
    [stc_number |-> GetD(stc, "stc_number", Str("")),
     title |-> Get(stc, "title"),
     description |-> Get(stc, "description"),
     installation_date |-> Get(stc, "installation_date")]

\* OCRService._transform_maintenance_report
transform_maintenance_report(data) ==
    IF data.t # "obj" THEN Raise("AttributeError")
    ELSE LET d == data.v
             refs == IterItems(GetD(d, "ad_sb_references", Lst(<<>>)))
             parts == IterItems(GetD(d, "parts_replaced", Lst(<<>>)))
             stcs == IterItems(GetD(d, "stc_references", Lst(<<>>)))
         IN  IF ~refs.ok THEN refs
             ELSE IF ~parts.ok THEN parts
             ELSE IF ~stcs.ok THEN stcs
             ELSE Ok(Obj(
                [date |-> Get(d, "date"),
                 ame_name |-> Get(d, "ame_name"),
                 amo_name |-> Get(d, "amo_name"),
                 ame_license |-> Get(d, "ame_license"),
                 work_order_number |-> Get(d, "work_order_number"),
                 description |-> Get(d, "description"),
                 airframe_hours |-> safe_float(Get(d, "airframe_hours")),
                 engine_hours |-> safe_float(Get(d, "engine_hours")),
                 propeller_hours |-> safe_float(Get(d, "propeller_hours")),
                 remarks |-> Get(d, "remarks"),
                 labor_cost |-> safe_float(Get(d, "labor_cost")),
                 parts_cost |-> safe_float(Get(d, "parts_cost")),
                 total_cost |-> safe_float(Get(d, "total_cost")),
                 ad_sb_references |->
                     Lst([i \in 1..Len(refs.val) |-> Obj(TransformAdsb(refs.val[i]))]),
                 parts_replaced |->
                     Lst([i \in 1..Len(parts.val) |-> Obj(TransformPart(parts.val[i]))]),
                 stc_references |->
                     Lst([i \in 1..Len(stcs.val) |-> Obj(TransformStc(stcs.val[i]))])]))

\* A normalization that keeps the payload's own fields beside the reference
transform_stc_keeping_payload(data) ==
    IF data.t # "obj" THEN Raise("AttributeError")
    ELSE Ok(Obj([stc_references |-> Lst(<<Obj(
                    [stc_number |-> GetD(data.v, "stc_number", Str("")),
                     title |-> Get(data.v, "title"),
                     installation_airframe_hours |->
                         safe_float(Get(data.v, "installation_airframe_hours"))])>>)]
                @@ data.v))

\* OCRService._transform_stc
transform_stc(data) ==
    IF data.t # "obj" THEN Raise("AttributeError")
    ELSE LET d == data.v
         IN  Ok(Obj(
                [stc_references |-> Lst(<<Obj(
                    [stc_number |-> GetD(d, "stc_number", Str("")),
                     title |-> Get(d, "title"),
                     description |-> Get(d, "description"),
                     holder |-> Get(d, "holder"),
                     applicable_models |-> GetD(d, "applicable_models", Lst(<<>>)),
                     installation_date |-> Get(d, "installation_date"),
                     installation_airframe_hours |->
                         safe_float(Get(d, "installation_airframe_hours")),
                     installed_by |-> Get(d, "installed_by"),
                     work_order_reference |-> Get(d, "work_order_reference"),
                     remarks |-> Get(d, "remarks")])>>),
                 ad_sb_references |-> Lst(<<>>),
                 parts_replaced |-> Lst(<<>>)]))

\* The body of the loop of OCRService._transform_invoice; supplier is the
\* invoice's, not the line's.
TransformInvoiceLine(part, supplier) ==
    [part_number |-> GetD(part, "part_number", Str("")),
     name |-> Get(part, "name"),
     serial_number |-> Get(part, "serial_number"),
     quantity |-> GetD(part, "quantity", Num(1)),
     price |-> safe_float(PyOr(Get(part, "total_price"), Get(part, "unit_price"))),
     supplier |-> supplier,
     manufacturer |-> Get(part, "manufacturer")]

\* OCRService._transform_invoice
transform_invoice(data) ==
    IF data.t # "obj" THEN Raise("AttributeError")
    ELSE LET d == data.v
             parts == IterItems(GetD(d, "parts", Lst(<<>>)))
         IN  IF ~parts.ok THEN parts
             ELSE Ok(Obj(
                [invoice_number |-> Get(d, "invoice_number"),
                 date |-> Get(d, "invoice_date"),
                 supplier |-> Get(d, "supplier"),
                 total_cost |-> safe_float(Get(d, "total")),
                 currency |-> GetD(d, "currency", Str("USD")),
                 parts_replaced |->
                     Lst([i \in 1..Len(parts.val) |->
                             Obj(TransformInvoiceLine(parts.val[i], Get(d, "supplier")))]),
                 ad_sb_references |-> Lst(<<>>),
                 stc_references |-> Lst(<<>>)]))

\* models.ocr_scan.DocumentType
DocumentTypes == {"maintenance_report", "stc", "invoice", "logbook", "other"}

\* A normalization that returns the payload as it is, whatever the type
transform_passing_through(data, document_type) == Ok(data)

\* OCRService._transform_to_standard_format
transform_to_standard_format(data, document_type) ==
    CASE document_type = "maintenance_report" -> transform_maintenance_report(data)
      [] document_type = "stc" -> transform_stc(data)
      [] document_type = "invoice" -> transform_invoice(data)
      [] OTHER -> Ok(data)

(***************************************************************************)
(* The backend's reply is a sequence of tokens: a code-fence marker, a     *)
(* brace, white space, or a chunk of other characters (prose, or the       *)
(* members of a JSON object, named by the payload they denote).            *)
(***************************************************************************)
Text(toks) == [t |-> "text", v |-> toks]
Whitespace == {" ", "\n"}
\* the three backquotes followed by json, and the three backquotes alone
FenceJson == "fence_json"
Fence == "fence"

RECURSIVE DropWs(_)
DropWs(s) == IF s = <<>> THEN s
             ELSE IF Head(s) \in Whitespace THEN DropWs(Tail(s)) ELSE s

\* re.sub(fence + r'\s*', '', response)
RECURSIVE RemoveFence(_, _)
RemoveFence(s, fence) ==
    IF s = <<>> THEN <<>>
    ELSE IF Head(s) = fence THEN RemoveFence(DropWs(Tail(s)), fence)
    ELSE <<Head(s)>> \o RemoveFence(Tail(s), fence)

Reverse(s) == [i \in 1..Len(s) |-> s[Len(s) + 1 - i]]
Strip(s) == Reverse(DropWs(Reverse(DropWs(s))))

\* str.find and str.rfind, 1-based, 0 when absent
Find(s, c) == IF \E i \in 1..Len(s) : s[i] = c
              THEN CHOOSE i \in 1..Len(s) : s[i] = c /\ \A j \in 1..(i - 1) : s[j] # c
              ELSE 0
RFind(s, c) == IF \E i \in 1..Len(s) : s[i] = c
               THEN CHOOSE i \in 1..Len(s) : s[i] = c /\ \A j \in (i + 1)..Len(s) : s[j] # c
               ELSE 0

\* OCRService._clean_json_response
clean_json_response(response) ==
    LET r == Strip(RemoveFence(RemoveFence(response, FenceJson), Fence))
        start == Find(r, "{")
        end == RFind(r, "}")
    IN  IF start # 0 /\ end # 0 THEN SubSeq(r, start, end) ELSE r

(***************************************************************************)
(* The JSON payloads the model's replies denote.                           *)
(***************************************************************************)
PayloadA ==
    [airframe_hours |-> Num(1600),
     ad_sb_references |-> Lst(<<Obj([reference_number |-> Str("AD-2024-01"),
                                     status |-> Str("COMPLIED")])>>),
     parts_replaced |-> Lst(<<Obj([part_number |-> Str("NGK-BPR6ES"),
                                   quantity |-> Num(4)])>>)]
PayloadWork ==
    [description |-> Str("100 hour inspection"),
     work_order_number |-> Str("WO-2024-001"),
     airframe_hours |-> Str("N/A"),
     engine_hours |-> Num(0),
     propeller_hours |-> Str("1600.0"),
     ad_sb_references |-> Lst(<<Obj([adsb_type |-> Str("SB")]),
                                Obj([adsb_type |-> Str("AD"),
                                     reference_number |-> Str("AD-2024-01")])>>),
     stc_references |-> Lst(<<Obj([stc_number |-> Str("SA02345NY")])>>)]
PayloadNullRef ==
    [description |-> Str("100 hour inspection"),
     ad_sb_references |-> Lst(<<Obj([adsb_type |-> Str("AD"),
                                     reference_number |-> Null])>>)]
PayloadBadQty ==
    [parts_replaced |-> Lst(<<Obj([part_number |-> Str("NGK-BPR6ES"),
                                   quantity |-> Str("N/A")])>>),
     parts |-> Lst(<<Obj([part_number |-> Str("NGK-BPR6ES"),
                          quantity |-> Str("N/A")])>>)]
PayloadNullColl ==
    [description |-> Str("100 hour inspection"),
     ad_sb_references |-> Null,
     parts |-> Null]
PayloadElt ==
    [airframe_hours |-> Num(1600),
     elt_data |-> Obj([detected |-> Bool(TRUE), brand |-> Str("Artex")])]
PayloadStc ==
    [stc_number |-> Str("SA02345NY"),
     title |-> Str("GPS installation"),
     installation_airframe_hours |-> Str("N/A")]
PayloadInvoice ==
    [supplier |-> Str("Aircraft Spruce"),
     total |-> Str("N/A"),
     parts |-> Lst(<<Obj([part_number |-> Str("NGK-BPR6ES"),
                          unit_price |-> Num(4),
                          total_price |-> Num(0)])>>)]

JsonBodyNames == {"A", "Work", "NullRef", "BadQty", "NullColl", "Elt", "Stc", "Invoice"}
JsonBody(name) ==
    CASE name = "A" -> PayloadA
      [] name = "Work" -> PayloadWork
      [] name = "NullRef" -> PayloadNullRef
      [] name = "BadQty" -> PayloadBadQty
      [] name = "NullColl" -> PayloadNullColl
      [] name = "Elt" -> PayloadElt
      [] name = "Stc" -> PayloadStc
      [] OTHER -> PayloadInvoice

(***************************************************************************)
(* json.loads on the texts of the model: an object, the empty object, the  *)
(* literals null and 42, or a JSONDecodeError.  White space between the    *)
(* tokens of a document is ignored.                                        *)
(***************************************************************************)
json_loads(text) ==
    LET doc == SelectSeq(text, LAMBDA tok : tok \notin Whitespace)
    IN  IF Len(doc) = 3 /\ doc[1] = "{" /\ doc[3] = "}" /\ doc[2] \in JsonBodyNames
        THEN Ok(Obj(JsonBody(doc[2])))
        ELSE IF doc = <<"{", "}">> THEN Ok(Obj(EmptyDict))
        ELSE IF doc = <<"null">> THEN Ok(Null)
        ELSE IF doc = <<"42">> THEN Ok(Num(42))
        ELSE Raise("JSONDecodeError")

\* The reply of the vision backend: it raises, or returns a text.
BackendError(msg) == [kind |-> "error", msg |-> msg, raw |-> <<>>]
BackendText(toks) == [kind |-> "text", msg |-> "", raw |-> toks]

\* OCRService.analyze_image, given what the backend call does
analyze_image(reply, document_type) ==
    IF reply.kind = "error"
    THEN [success |-> FALSE, error |-> Str(reply.msg),
          raw_text |-> Null, extracted_data |-> Null]
    ELSE LET raw_response == reply.raw
             parsed == json_loads(clean_json_response(raw_response))
             extracted_data ==
                 IF parsed.ok THEN parsed.val
                 ELSE Obj([raw_response |-> Text(raw_response),
                           parse_error |-> Str(parsed.err)])
             structured_data == transform_to_standard_format(extracted_data, document_type)
         IN  IF structured_data.ok
             THEN [success |-> TRUE, error |-> Null,
                   raw_text |-> Text(raw_response),
                   extracted_data |-> structured_data.val]
             ELSE [success |-> FALSE, error |-> Str(structured_data.err),
                   raw_text |-> Null, extracted_data |-> Null]

(***************************************************************************)
(* Validation by the response models (pydantic, lax mode): a field is      *)
(* valid when its value has the declared type or coerces to it; a missing  *)
(* key takes the field's default, and a required field must be present.    *)
(* Keys the model does not declare are ignored.                            *)
(***************************************************************************)
IntStrings == {"4"}
IsStr(x) == x.t = "str"
IsOptStr(x) == x.t \in {"null", "str"}
IsFloat(x) == x.t \in {"num", "bool"} \/ (x.t = "str" /\ x.v \in FloatStrings)
IsOptFloat(x) == x.t = "null" \/ IsFloat(x)
IsInt(x) == x.t \in {"num", "bool"} \/ (x.t = "str" /\ x.v \in IntStrings)
IsOptInt(x) == x.t = "null" \/ IsInt(x)
IsBool(x) == x.t = "bool" \/ (x.t = "num" /\ x.v \in {0, 1})

\* models.ocr_scan.ExtractedADSB
ValidADSB(x) ==
    /\ x.t = "obj"
    /\ "adsb_type" \in DOMAIN x.v /\ IsStr(x.v["adsb_type"])
    /\ "reference_number" \in DOMAIN x.v /\ IsStr(x.v["reference_number"])
    /\ IsStr(GetD(x.v, "status", Str("UNKNOWN")))
    /\ IsOptStr(Get(x.v, "compliance_date"))
    /\ IsOptFloat(Get(x.v, "airframe_hours"))
    /\ IsOptFloat(Get(x.v, "engine_hours"))
    /\ IsOptFloat(Get(x.v, "propeller_hours"))
    /\ IsOptStr(Get(x.v, "description"))

\* models.ocr_scan.ExtractedPart
ValidPart(x) ==
    /\ x.t = "obj"
    /\ "part_number" \in DOMAIN x.v /\ IsStr(x.v["part_number"])
    /\ IsOptStr(Get(x.v, "name"))
    /\ IsOptStr(Get(x.v, "serial_number"))
    /\ IsInt(GetD(x.v, "quantity", Num(1)))
    /\ IsOptFloat(Get(x.v, "price"))
    /\ IsOptStr(Get(x.v, "supplier"))

\* models.ocr_scan.ExtractedSTC
ValidSTC(x) ==
    /\ x.t = "obj"
    /\ "stc_number" \in DOMAIN x.v /\ IsStr(x.v["stc_number"])
    /\ IsOptStr(Get(x.v, "title"))
    /\ IsOptStr(Get(x.v, "description"))
    /\ IsOptStr(Get(x.v, "installation_date"))

\* models.ocr_scan.ExtractedELTData
ValidELT(x) ==
    /\ x.t = "obj"
    /\ IsBool(GetD(x.v, "detected", Bool(FALSE)))
    /\ \A k \in {"brand", "model", "serial_number", "installation_date",
                 "certification_date", "battery_expiry_date",
                 "battery_install_date", "beacon_hex_id"} : IsOptStr(Get(x.v, k))
    /\ IsOptInt(Get(x.v, "battery_interval_months"))

\* ExtractedMaintenanceData(**data): TRUE when it builds, FALSE when it
\* raises (TypeError for a non-mapping, ValidationError for a bad field).
ExtractedMaintenanceDataOk(data) ==
    /\ data.t = "obj"
    /\ \A k \in {"date", "ame_name", "amo_name", "ame_license",
                 "work_order_number", "description", "remarks"} :
           IsOptStr(Get(data.v, k))
    /\ \A k \in {"airframe_hours", "engine_hours", "propeller_hours",
                 "labor_cost", "parts_cost", "total_cost"} :
           IsOptFloat(Get(data.v, k))
    /\ LET l == GetD(data.v, "ad_sb_references", Lst(<<>>))
       IN  l.t = "list" /\ \A i \in 1..Len(l.v) : ValidADSB(l.v[i])
    /\ LET l == GetD(data.v, "parts_replaced", Lst(<<>>))
       IN  l.t = "list" /\ \A i \in 1..Len(l.v) : ValidPart(l.v[i])
    /\ LET l == GetD(data.v, "stc_references", Lst(<<>>))
       IN  l.t = "list" /\ \A i \in 1..Len(l.v) : ValidSTC(l.v[i])
    /\ LET e == Get(data.v, "elt_data") IN e.t = "null" \/ ValidELT(e)

(***************************************************************************)
(* The state: the collections of the database, the clock, and the calls    *)
(* in flight.  Every await of a handler on the database is a point where   *)
(* other calls may run; a handler is cut into steps at those points.       *)
(***************************************************************************)
VARIABLES
    clock,                \* the last reading of datetime.utcnow(), in ticks
    scans,                \* db.ocr_scans: scan id -> document
    aircrafts,            \* db.aircrafts: aircraft id -> document
    aircraft,             \* db.aircraft, the collection routes/aircraft.py reads
    maintenance_records,  \* db.maintenance_records, in insertion order
    adsb_records,         \* db.adsb_records
    part_records,         \* db.part_records
    stc_records,          \* db.stc_records
    elt_records,          \* db.elt_records
    call,                 \* the call each worker is in, with its local variables
    returned,             \* the call that returned in the last step, if one did
    issued,               \* how many calls of each kind passed their checks
    config                \* the environment: who calls, and what the backend may reply

vars == <<clock, scans, aircrafts, aircraft, maintenance_records, adsb_records, part_records,
          stc_records, elt_records, call, returned, issued, config>>

downstream == <<aircrafts, maintenance_records, adsb_records, part_records,
                stc_records, elt_records>>

\* Bounds of the model
MaxClock == 2
TicksPerMonth == 2
MaxSubmits == 2
SeqMaxSubmits == 1
QuotaMaxSubmits == 4
QuotaMaxApplies == 1
MaxApplies == 2
MaxDeletes == 1
AccessMaxDeletes == 2
PlanLimit == 1

Users == {"u1", "u2"}
AircraftIds == {"a1", "a2"}

\* db.users: the plan limits of each user; -1 is the unlimited sentinel
UserDocs ==
    [u \in Users |->
        IF u = "u1" THEN [limits |-> [ocr_per_month |-> PlanLimit]]
        ELSE [limits |-> [ocr_per_month |-> -1]]]

DefaultOcrLimit == 3
\* user_doc.get("limits", {}).get("ocr_per_month", 3)
OcrLimit(u) ==
    LET limits == IF "limits" \in DOMAIN UserDocs[u] THEN UserDocs[u].limits ELSE EmptyDict
    IN  IF "ocr_per_month" \in DOMAIN limits THEN limits.ocr_per_month ELSE DefaultOcrLimit

\* datetime.utcnow().replace(day=1, hour=0, minute=0, second=0, microsecond=0)
StartOfMonth(now) == now - (now % TicksPerMonth)

\* db.ocr_scans.count_documents({user_id, created_at >= start_of_month})
CountThisMonth(u, now) ==
    Cardinality({id \in DOMAIN scans :
                    /\ scans[id].user_id = u
                    /\ scans[id].created_at >= StartOfMonth(now)})

\* datetime.utcnow(): time passes between two readings, or does not
Readings == {t \in 0..MaxClock : clock <= t /\ t <= clock + 1}

\* The quota check with the comparison made strict
QuotaExceededStrict(ocr_limit, ocr_count) == ocr_limit # -1 /\ ocr_count > ocr_limit

\* if ocr_limit != -1 ... if ocr_count >= ocr_limit
QuotaExceeded(ocr_limit, ocr_count) == ocr_limit # -1 /\ ocr_count >= ocr_limit

NoReply == [kind |-> "none", msg |-> "", raw |-> <<>>]
NoOcrResult == [success |-> FALSE, error |-> Null, raw_text |-> Null, extracted_data |-> Null]
NoAppliedIds == [maintenance_id |-> Null, adsb_ids |-> <<>>, part_ids |-> <<>>,
                 stc_ids |-> <<>>, elt_id |-> Null]

IdleCall ==
    [op |-> "idle", pc |-> "idle", user |-> "", aircraft_id |-> "",
     document_type |-> "", scan_id |-> -1, update_aircraft_hours |-> FALSE,
     limit |-> 0, reply |-> NoReply, ocr_result |-> NoOcrResult, scan |-> Null,
     applied_ids |-> NoAppliedIds, existing_elt |-> Null, elt_created |-> FALSE,
     registration |-> ""]

\* No call has just returned.  What returned records of a call: its kind and
\* arguments, the backend's reply it received, and its result
NoReturn == [op |-> "", user |-> "", aircraft_id |-> "", scan_id |-> -1, limit |-> 0,
             reply |-> NoReply, result |-> "", response |-> Null]

\* A new call is served by the first idle worker
Free(p) ==
    /\ call[p].pc = "idle"
    /\ \A q \in config.procs : call[q].pc = "idle" => p <= q

\* The call of worker p goes on with local variables c
Continue(p, c) ==
    /\ call' = [call EXCEPT ![p] = c]
    /\ returned' = NoReturn

\* The call of worker p, with local variables c, returns: result is "OK" or the
\* kind of the error raised
Return(p, c, result, response) ==
    /\ call' = [call EXCEPT ![p] = IdleCall]
    /\ returned' = [op |-> c.op, user |-> c.user, aircraft_id |-> c.aircraft_id,
                    scan_id |-> c.scan_id, limit |-> c.limit, reply |-> c.reply,
                    result |-> result,
                    response |-> response]

\* db.ocr_scans.update_one({"_id": scan_id}, {"$set": fields}): no document, no change
UpdateScan(scan_id, fields) ==
    IF scan_id \in DOMAIN scans
    THEN [scans EXCEPT ![scan_id] = fields @@ scans[scan_id]]
    ELSE scans

\* The lookup by id alone
FindAnyScan(u, id) == id \in DOMAIN scans

\* db.ocr_scans.find_one({"_id": scan_id, "user_id": current_user.id}) is not None
FindScan(u, id) == id \in DOMAIN scans /\ scans[id].user_id = u

(***************************************************************************)
(* scan_document                                                           *)
(***************************************************************************)
\* lines 39-67: the aircraft check and the quota check
SubmitCheck(p, u, a, dt) ==
    /\ Free(p)
    /\ issued.submit < config.max_submits
    /\ \E now \in Readings :
         LET c == [IdleCall EXCEPT !.op = "submit", !.user = u, !.aircraft_id = a,
                                   !.document_type = dt]
             rejected == IF ~(a \in DOMAIN aircrafts /\ aircrafts[a].user_id = u)
                         THEN "NotFound"
                         ELSE IF QuotaExceeded(OcrLimit(u), CountThisMonth(u, now))
                         THEN "QuotaExceeded"
                         ELSE ""
         IN  /\ clock' = now
             /\ IF rejected # "" THEN Return(p, c, rejected, Null)
                ELSE Continue(p, [c EXCEPT !.pc = "insert"])
             /\ issued' = IF rejected # "" THEN issued
                          ELSE [issued EXCEPT !.submit = @ + 1]
    /\ UNCHANGED <<aircraft, scans, downstream, config>>

\* The document of lines 70-85
NewScanDoc(u, a, dt, now) ==
    [user_id |-> u, aircraft_id |-> a, document_type |-> dt,
     status |-> "PROCESSING", raw_text |-> Null, extracted_data |-> Null,
     error_message |-> Null, applied_maintenance_id |-> Null,
     applied_adsb_ids |-> <<>>, applied_part_ids |-> <<>>, applied_stc_ids |-> <<>>,
     applied_elt_id |-> Null, created_at |-> now]

\* lines 69-91: the id is the clock reading; an id already stored makes insert_one
\* raise DuplicateKeyError, outside the try block
SubmitInsert(p) ==
    /\ call[p].op = "submit" /\ call[p].pc = "insert"
    /\ \E now \in Readings :
         LET c == call[p]
             scan_id == now
         IN  /\ clock' = now
             /\ IF scan_id \in DOMAIN scans
                THEN /\ Return(p, c, "ServiceError", Null)
                     /\ UNCHANGED scans
                ELSE /\ scans' = (scan_id :> NewScanDoc(c.user, c.aircraft_id,
                                                        c.document_type, now)) @@ scans
                     /\ Continue(p, [c EXCEPT !.pc = "analyze", !.scan_id = scan_id])
    /\ UNCHANGED <<aircraft, downstream, issued, config>>

\* The update of a failed extraction that records the message and leaves the status
FailedUpdateMessageOnly(ocr_result) == [error_message |-> ocr_result.error]

\* lines 129-138: the $set of a failed extraction; analyze_image always sets "error"
FailedUpdate(ocr_result) ==
    [status |-> "FAILED", error_message |-> ocr_result.error]

\* lines 93-143: the extraction and the update that records its outcome
SubmitStore(p) ==
    /\ call[p].op = "submit" /\ call[p].pc = "analyze"
    /\ \E reply \in config.replies :
         LET c == call[p]
             ocr_result == analyze_image(reply, c.document_type)
         IN  IF ocr_result.success
             THEN /\ scans' = UpdateScan(c.scan_id,
                                 [status |-> "COMPLETED",
                                  raw_text |-> ocr_result.raw_text,
                                  extracted_data |-> ocr_result.extracted_data])
                  /\ Continue(p, [c EXCEPT !.pc = "respond", !.reply = reply,
                                            !.ocr_result = ocr_result])
             ELSE /\ scans' = UpdateScan(c.scan_id, FailedUpdate(ocr_result))
                  /\ Return(p, [c EXCEPT !.reply = reply, !.ocr_result = ocr_result],
                            "ServiceError", Null)
    /\ UNCHANGED <<aircraft, clock, downstream, issued, config>>

\* lines 118-126: OCRScanResponse(...), which validates the extraction when it is truthy
ResponseBuilds(ocr_result) ==
    ~Truthy(ocr_result.extracted_data) \/ ExtractedMaintenanceDataOk(ocr_result.extracted_data)

\* lines 118-126 and 147-164: the response, or the handler of the exception it raises
SubmitRespond(p) ==
    /\ call[p].op = "submit" /\ call[p].pc = "respond"
    /\ LET c == call[p]
       IN  IF ResponseBuilds(c.ocr_result)
           THEN /\ Return(p, c, "OK",
                          [id |-> c.scan_id, status |-> "COMPLETED",
                           document_type |-> c.document_type,
                           raw_text |-> c.ocr_result.raw_text,
                           error_message |-> Null])
                /\ UNCHANGED scans
           ELSE /\ scans' = UpdateScan(c.scan_id,
                               [status |-> "FAILED",
                                error_message |-> Str("ValidationError")])
                /\ Return(p, c, "ServiceError", Null)
    /\ UNCHANGED <<aircraft, clock, downstream, issued, config>>

(***************************************************************************)
(* delete_ocr_scan: the lookup scoped to the caller, then the removal      *)
(***************************************************************************)
\* A removal that keeps a scan already applied
DeleteOneUnlessApplied(id) ==
    IF scans[id].status = "APPLIED" THEN scans
    ELSE [x \in DOMAIN scans \ {id} |-> scans[x]]

\* lines 604-608: db.ocr_scans.delete_one({"_id": scan_id})
DeleteOne(id) == [x \in DOMAIN scans \ {id} |-> scans[x]]

Delete(p, u, id) ==
    /\ Free(p)
    /\ issued.delete < config.max_deletes
    /\ LET c == [IdleCall EXCEPT !.op = "delete", !.user = u, !.scan_id = id]
       IN  IF FindScan(u, id)
           THEN /\ scans' = DeleteOne(id)
                /\ Return(p, c, "OK", Null)
                /\ issued' = [issued EXCEPT !.delete = @ + 1]
           ELSE /\ UNCHANGED <<scans, issued>>
                /\ Return(p, c, "NotFound", Null)
    /\ UNCHANGED <<aircraft, clock, downstream, config>>

(***************************************************************************)
(* apply_ocr_results                                                       *)
(***************************************************************************)
\* The status check that refuses only an applied scan
CanApplyUnlessApplied(status) == status # "APPLIED"

\* What a write to the database may do: succeed, or raise where the
\* specification lets the database fail
WriteOutcomes == IF config.faults THEN BOOLEAN ELSE {TRUE}

\* The write of a batch of n that raises: none (0), or the k-th
FailPoints(n) == IF config.faults THEN 0..n ELSE {0}

\* The first n items of a sequence, all of them when n is larger
Take(s, n) == SubSeq(s, 1, IF n < 0 THEN 0 ELSE IF n > Len(s) THEN Len(s) ELSE n)

\* A failed write that is ignored: the call goes on to mark the scan
OnWriteErrorIgnored(p, c) == Continue(p, [c EXCEPT !.pc = "finish"])

\* lines 539-544: the exception of a failed write leaves the try block and is
\* answered 500, the detail carrying its message
OnWriteError(p, c) == Return(p, c, "ServiceError", Str("WriteError"))

\* lines 285-295: only a completed scan is applied
CanApply(status) == status = "COMPLETED" /\ status # "APPLIED"

HourKeys == {"airframe_hours", "engine_hours", "propeller_hours"}

\* lines 311-317: the counters whose reading is truthy
HoursUpdate(extracted_data) ==
    [k \in {h \in HourKeys : Truthy(Get(extracted_data, h))} |-> extracted_data[k]]

\* An hours update made whatever the flag says
AfterReadHoursAlways(flag, extracted_data) ==
    IF DOMAIN HoursUpdate(extracted_data) # {} THEN "hours" ELSE "records"

\* lines 310 and 319: the aircraft is written when update_aircraft_hours is set
\* and hours_update is not empty
AfterRead(flag, extracted_data) ==
    IF flag /\ DOMAIN HoursUpdate(extracted_data) # {} THEN "hours" ELSE "records"

\* lines 273-306: the lookup scoped to the caller and the status check.  A
\* stored extraction that is no dict makes the first extracted_data.get raise,
\* before any write.
ApplyRead(p, u, id, flag) ==
    /\ Free(p)
    /\ issued.apply < config.max_applies
    /\ LET c == [IdleCall EXCEPT !.op = "apply", !.user = u, !.scan_id = id,
                                 !.update_aircraft_hours = flag]
           rejected == IF ~FindScan(u, id)
                       THEN "NotFound"
                       ELSE IF ~CanApply(scans[id].status)
                       THEN "InvalidState"
                       ELSE IF scans[id].extracted_data.t # "obj"
                       THEN "ServiceError"
                       ELSE ""
       IN  /\ IF rejected # "" THEN Return(p, c, rejected, Null)
              ELSE Continue(p,
                     [c EXCEPT !.scan = scans[id],
                               !.aircraft_id = scans[id].aircraft_id,
                               !.pc = AfterRead(flag, scans[id].extracted_data.v)])
           /\ issued' = IF rejected # "" THEN issued
                        ELSE [issued EXCEPT !.apply = @ + 1]
    /\ UNCHANGED <<aircraft, clock, scans, downstream, config>>

\* lines 319-325: db.aircrafts.update_one({"_id": aircraft_id}, {"$set": hours_update})
ApplyHours(p) ==
    /\ call[p].op = "apply" /\ call[p].pc = "hours"
    /\ LET c == call[p]
           hours_update == HoursUpdate(c.scan.extracted_data.v)
       IN  \E ok \in WriteOutcomes :
             IF ok
             THEN /\ aircrafts' = IF c.aircraft_id \in DOMAIN aircrafts
                                  THEN [aircrafts EXCEPT ![c.aircraft_id] = hours_update @@ @]
                                  ELSE aircrafts
                  /\ Continue(p, [c EXCEPT !.pc = "records"])
             ELSE /\ aircrafts' = aircrafts
                  /\ OnWriteError(p, c)
    /\ UNCHANGED <<aircraft, clock, scans, maintenance_records, adsb_records, part_records,
                   stc_records, elt_records, issued, config>>

\* for x in coll: x.get(...) -- the dicts reached before anything raises
IterPrefix(coll) ==
    IF coll.t # "list" THEN <<>>
    ELSE LET n == Len(coll.v)
             bad == {i \in 1..n : coll.v[i].t # "obj"}
             stop == IF bad = {} THEN n
                     ELSE (CHOOSE i \in bad : \A j \in bad : i <= j) - 1
         IN  [i \in 1..stop |-> coll.v[i].v]

IterRaises(coll) == ~IterItems(coll).ok

\* A loop that looks at its first entry only
KeyedOfFirst(items, key) == SelectSeq(Take(items, 1), LAMBDA x : Truthy(Get(x, key)))

\* lines 366-369, 401-403, 429-431: the entries the loop does not skip
Keyed(items, key) == SelectSeq(items, LAMBDA x : Truthy(Get(x, key)))

\* A maintenance record that lists only the entries the later loops keep
MaintenanceDocOfKeyed(c, id, ed) ==
    [id |-> id, user_id |-> c.user, aircraft_id |-> c.aircraft_id,
     ocr_scan_id |-> c.scan_id, source |-> "ocr",
     description |-> GetD(ed, "description", Str("OCR Extracted Maintenance")),
     work_order_number |-> Get(ed, "work_order_number"),
     airframe_hours |-> Get(ed, "airframe_hours"),
     engine_hours |-> Get(ed, "engine_hours"),
     propeller_hours |-> Get(ed, "propeller_hours"),
     parts_replaced |->
         LET ps == Keyed(IterPrefix(GetD(ed, "parts_replaced", Lst(<<>>))), "part_number")
         IN  [i \in 1..Len(ps) |-> ps[i]["part_number"]],
     regulatory_references |->
         LET rs == Keyed(IterPrefix(GetD(ed, "ad_sb_references", Lst(<<>>))),
                         "reference_number")
         IN  [i \in 1..Len(rs) |-> rs[i]["reference_number"]]]

\* lines 336-359
MaintenanceDoc(c, id, ed) ==
    [id |-> id, user_id |-> c.user, aircraft_id |-> c.aircraft_id,
     ocr_scan_id |-> c.scan_id, source |-> "ocr",
     description |-> GetD(ed, "description", Str("OCR Extracted Maintenance")),
     work_order_number |-> Get(ed, "work_order_number"),
     airframe_hours |-> Get(ed, "airframe_hours"),
     engine_hours |-> Get(ed, "engine_hours"),
     propeller_hours |-> Get(ed, "propeller_hours"),
     parts_replaced |->
         LET ps == IterPrefix(GetD(ed, "parts_replaced", Lst(<<>>)))
         IN  [i \in 1..Len(ps) |-> GetD(ps[i], "part_number", Str(""))],
     regulatory_references |->
         LET rs == IterPrefix(GetD(ed, "ad_sb_references", Lst(<<>>)))
         IN  [i \in 1..Len(rs) |-> GetD(rs[i], "reference_number", Str(""))]]

\* lines 377-393
AdsbDoc(c, id, adsb) ==
    [id |-> id, user_id |-> c.user, aircraft_id |-> c.aircraft_id,
     ocr_scan_id |-> c.scan_id, source |-> "ocr",
     adsb_type |-> GetD(adsb, "adsb_type", Str("AD")),
     reference_number |-> adsb["reference_number"],
     status |-> GetD(adsb, "status", Str("UNKNOWN")),
     compliance_airframe_hours |-> Get(adsb, "airframe_hours")]

\* A part record that carries the caller but not the scan's aircraft
PartDocOfNoAircraft(c, id, part, ed) ==
    [id |-> id, user_id |-> c.user, aircraft_id |-> "",
     ocr_scan_id |-> c.scan_id, source |-> "ocr",
     part_number |-> part["part_number"],
     name |-> GetD(part, "name", part["part_number"]),
     quantity |-> GetD(part, "quantity", Num(1)),
     purchase_price |-> Get(part, "price"),
     installation_airframe_hours |-> Get(ed, "airframe_hours")]

\* lines 405-421
PartDoc(c, id, part, ed) ==
    [id |-> id, user_id |-> c.user, aircraft_id |-> c.aircraft_id,
     ocr_scan_id |-> c.scan_id, source |-> "ocr",
     part_number |-> part["part_number"],
     name |-> GetD(part, "name", part["part_number"]),
     quantity |-> GetD(part, "quantity", Num(1)),
     purchase_price |-> Get(part, "price"),
     installation_airframe_hours |-> Get(ed, "airframe_hours")]

\* lines 440-455
StcDoc(c, id, stc, ed) ==
    [id |-> id, user_id |-> c.user, aircraft_id |-> c.aircraft_id,
     ocr_scan_id |-> c.scan_id, source |-> "ocr",
     stc_number |-> stc["stc_number"],
     installation_airframe_hours |->
         PyOr(Get(stc, "installation_airframe_hours"), Get(ed, "airframe_hours")),
     installed_by |-> PyOr(Get(stc, "installed_by"), Get(ed, "ame_name"))]

\* A maintenance record whatever the extraction holds
WantsMaintenanceAlways(ed) == TRUE

\* line 328
WantsMaintenance(ed) ==
    Truthy(Get(ed, "description")) \/ Truthy(Get(ed, "work_order_number"))

Ids(base, n) == [i \in 1..n |-> Num(base + i)]

\* lines 463-465
EltDetected(ed) ==
    LET elt_data == GetD(ed, "elt_data", Obj(EmptyDict))
    IN  Truthy(elt_data) /\ elt_data.t = "obj" /\ Truthy(Get(elt_data.v, "detected"))
EltRaises(ed) ==
    LET elt_data == GetD(ed, "elt_data", Obj(EmptyDict))
    IN  Truthy(elt_data) /\ elt_data.t # "obj"

\* lines 327-465: the inserts of the maintenance, AD/SB, part and STC records, in
\* that order, up to the first statement that raises
ApplyRecords(p) ==
    /\ call[p].op = "apply" /\ call[p].pc = "records"
    /\ LET c == call[p]
           ed == c.scan.extracted_data.v
           refs == GetD(ed, "ad_sb_references", Lst(<<>>))
           parts == GetD(ed, "parts_replaced", Lst(<<>>))
           stcs == GetD(ed, "stc_references", Lst(<<>>))
           m_raises == WantsMaintenance(ed) /\ (IterRaises(parts) \/ IterRaises(refs))
           do_m == WantsMaintenance(ed) /\ ~m_raises
           do_adsb == ~m_raises
           do_parts == do_adsb /\ ~IterRaises(refs)
           do_stc == do_parts /\ ~IterRaises(parts)
           done == do_stc /\ ~IterRaises(stcs) /\ ~EltRaises(ed)
           to_adsb == IF do_adsb THEN Keyed(IterPrefix(refs), "reference_number") ELSE <<>>
           to_parts == IF do_parts THEN Keyed(IterPrefix(parts), "part_number") ELSE <<>>
           to_stcs == IF do_stc THEN Keyed(IterPrefix(stcs), "stc_number") ELSE <<>>
           to_m == IF do_m THEN 1 ELSE 0
           inserts == to_m + Len(to_adsb) + Len(to_parts) + Len(to_stcs)
           m_id == Len(maintenance_records) + 1
       IN  \E fail_at \in FailPoints(inserts) :
             LET written == IF fail_at = 0 THEN inserts ELSE fail_at - 1
                 new_m == do_m /\ written >= 1
                 new_adsb == Take(to_adsb, written - to_m)
                 new_parts == Take(to_parts, written - to_m - Len(to_adsb))
                 new_stcs == Take(to_stcs, written - to_m - Len(to_adsb) - Len(to_parts))
                 applied_ids ==
                     [maintenance_id |-> IF new_m THEN Num(m_id) ELSE Null,
                      adsb_ids |-> Ids(Len(adsb_records), Len(new_adsb)),
                      part_ids |-> Ids(Len(part_records), Len(new_parts)),
                      stc_ids |-> Ids(Len(stc_records), Len(new_stcs)),
                      elt_id |-> Null]
             IN  /\ maintenance_records' =
                        IF new_m THEN Append(maintenance_records, MaintenanceDoc(c, m_id, ed))
                        ELSE maintenance_records
                 /\ adsb_records' = adsb_records \o
                        [i \in 1..Len(new_adsb) |->
                            AdsbDoc(c, Len(adsb_records) + i, new_adsb[i])]
                 /\ part_records' = part_records \o
                        [i \in 1..Len(new_parts) |->
                            PartDoc(c, Len(part_records) + i, new_parts[i], ed)]
                 /\ stc_records' = stc_records \o
                        [i \in 1..Len(new_stcs) |->
                            StcDoc(c, Len(stc_records) + i, new_stcs[i], ed)]
                 /\ IF fail_at # 0
                    THEN OnWriteError(p, [c EXCEPT !.applied_ids = applied_ids])
                    ELSE IF ~done
                    THEN Return(p, [c EXCEPT !.applied_ids = applied_ids],
                                "ServiceError", Null)
                    ELSE Continue(p, [c EXCEPT !.applied_ids = applied_ids,
                                               !.pc = IF EltDetected(ed) THEN "elt_find"
                                                      ELSE "finish"])
    /\ UNCHANGED <<aircraft, clock, scans, aircrafts, elt_records, issued, config>>

\* lines 467-470: db.elt_records.find_one({aircraft_id, user_id})
ApplyEltFind(p) ==
    /\ call[p].op = "apply" /\ call[p].pc = "elt_find"
    /\ LET c == call[p]
           found == {i \in 1..Len(elt_records) :
                        /\ elt_records[i].aircraft_id = c.aircraft_id
                        /\ elt_records[i].user_id = c.user}
       IN  Continue(p,
               [c EXCEPT !.pc = "elt_write",
                         !.existing_elt =
                             IF found = {} THEN Null
                             ELSE elt_records[CHOOSE i \in found : \A j \in found : i <= j]])
    /\ UNCHANGED <<aircraft, clock, scans, downstream, issued, config>>

\* lines 472-491; the date fields, parsed one by one and left out when they do
\* not parse, are not modelled
EltDoc(c, elt_data) ==
    [brand |-> Get(elt_data, "brand"), model |-> Get(elt_data, "model"),
     serial_number |-> Get(elt_data, "serial_number"),
     beacon_hex_id |-> Get(elt_data, "beacon_hex_id"),
     source |-> "ocr", ocr_scan_id |-> c.scan_id]
    @@ (IF Truthy(Get(elt_data, "battery_interval_months"))
        THEN [battery_interval_months |-> elt_data["battery_interval_months"]]
        ELSE EmptyDict)

\* lines 493-510: update the record found, or insert a new one
ApplyEltWrite(p) ==
    /\ call[p].op = "apply" /\ call[p].pc = "elt_write"
    /\ LET c == call[p]
           elt_doc == EltDoc(c, c.scan.extracted_data.v["elt_data"].v)
           new_id == Len(elt_records) + 1
       IN  \E ok \in WriteOutcomes :
             IF ~ok
             THEN /\ elt_records' = elt_records
                  /\ OnWriteError(p, c)
             ELSE IF c.existing_elt # Null
             THEN /\ elt_records' =
                         [i \in 1..Len(elt_records) |->
                             IF elt_records[i].id = c.existing_elt.id
                             THEN elt_doc @@ elt_records[i]
                             ELSE elt_records[i]]
                  /\ Continue(p, [c EXCEPT !.pc = "finish", !.elt_created = TRUE,
                                            !.applied_ids.elt_id = Num(c.existing_elt.id)])
             ELSE /\ elt_records' = Append(elt_records,
                         elt_doc @@ [id |-> new_id, user_id |-> c.user,
                                     aircraft_id |-> c.aircraft_id])
                  /\ Continue(p, [c EXCEPT !.pc = "finish", !.elt_created = TRUE,
                                            !.applied_ids.elt_id = Num(new_id)])
    /\ UNCHANGED <<aircraft, clock, scans, aircrafts, maintenance_records, adsb_records,
                   part_records, stc_records, issued, config>>

\* lines 512-537: the scan becomes APPLIED and the summary is returned
ApplyFinish(p) ==
    /\ call[p].op = "apply" /\ call[p].pc = "finish"
    /\ LET c == call[p]
       IN  \E ok \in WriteOutcomes :
             IF ok
             THEN /\ scans' = UpdateScan(c.scan_id,
                        [status |-> "APPLIED",
                         applied_maintenance_id |-> c.applied_ids.maintenance_id,
                         applied_adsb_ids |-> c.applied_ids.adsb_ids,
                         applied_part_ids |-> c.applied_ids.part_ids,
                         applied_stc_ids |-> c.applied_ids.stc_ids,
                         applied_elt_id |-> c.applied_ids.elt_id])
                  /\ Return(p, c, "OK",
                            [maintenance_record |-> c.applied_ids.maintenance_id,
                             adsb_records |-> Len(c.applied_ids.adsb_ids),
                             part_records |-> Len(c.applied_ids.part_ids),
                             stc_records |-> Len(c.applied_ids.stc_ids),
                             elt_updated |-> c.elt_created])
             ELSE /\ scans' = scans
                  /\ OnWriteError(p, c)
    /\ UNCHANGED <<aircraft, clock, downstream, issued, config>>

(***************************************************************************)
(* The read-only handlers: get_ocr_scan, get_ocr_history and               *)
(* get_ocr_quota_status.  Each makes its queries and returns in one step.  *)
(***************************************************************************)
\* OCRScanResponse(...) of a stored scan: the extraction is left out when it is
\* falsy or when the response model refuses it (try ... except: pass)
ScanResponse(id, scan) ==
    [id |-> id, status |-> scan.status, document_type |-> scan.document_type,
     raw_text |-> scan.raw_text,
     extracted_data |->
         IF Truthy(scan.extracted_data) /\ ExtractedMaintenanceDataOk(scan.extracted_data)
         THEN scan.extracted_data ELSE Null,
     error_message |-> scan.error_message, created_at |-> scan.created_at]

\* get_ocr_scan: the lookup scoped to the caller
GetScan(p, u, id) ==
    /\ Free(p)
    /\ LET c == [IdleCall EXCEPT !.op = "get", !.user = u, !.scan_id = id]
       IN  IF FindScan(u, id)
           THEN Return(p, c, "OK", ScanResponse(id, scans[id]))
           ELSE Return(p, c, "NotFound", Null)
    /\ UNCHANGED <<aircraft, clock, scans, downstream, issued, config>>

\* find(...).sort("created_at", -1): the matching ids, newest first; the
\* store decides the order of scans created at the same time
SortNewestFirst(ids) ==
    CHOOSE s \in [1..Cardinality(ids) -> ids] :
        /\ \A i, j \in DOMAIN s : i # j => s[i] # s[j]
        /\ \A i, j \in DOMAIN s :
              i < j => scans[s[i]].created_at >= scans[s[j]].created_at

\* cursor.limit(limit): MongoDB reads 0 as no limit, and a negative limit as
\* its absolute value
CursorLimit(s, limit) ==
    IF limit = 0 THEN s ELSE Take(s, IF limit < 0 THEN -limit ELSE limit)

\* The limits a caller may ask for: the query parameter is any int, 20 by default
DefaultHistoryLimit == 20
HistoryLimits == {0, 1, DefaultHistoryLimit}

\* get_ocr_history: the aircraft check, then the caller's scans of the aircraft
GetHistory(p, u, a, limit) ==
    /\ Free(p)
    /\ LET c == [IdleCall EXCEPT !.op = "history", !.user = u, !.aircraft_id = a,
                                 !.limit = limit]
           found == {id \in DOMAIN scans :
                        scans[id].aircraft_id = a /\ scans[id].user_id = u}
           cursor == CursorLimit(SortNewestFirst(found), limit)
       IN  IF ~(a \in DOMAIN aircrafts /\ aircrafts[a].user_id = u)
           THEN Return(p, c, "NotFound", Null)
           ELSE Return(p, c, "OK",
                       Lst([i \in 1..Len(cursor) |->
                               ScanResponse(cursor[i], scans[cursor[i]])]))
    /\ UNCHANGED <<aircraft, clock, scans, downstream, issued, config>>

\* The answer that treats the sentinel -1 as a limit like any other
QuotaStatusNumeric(ocr_limit, ocr_count) ==
    [used |-> Num(ocr_count), limit |-> Num(ocr_limit),
     remaining |-> Num(ocr_limit - ocr_count)]

\* lines 566-570: the answer of get_ocr_quota_status
QuotaStatus(ocr_limit, ocr_count) ==
    [used |-> Num(ocr_count),
     limit |-> IF ocr_limit # -1 THEN Num(ocr_limit) ELSE Str("unlimited"),
     remaining |-> IF ocr_limit # -1 THEN Num(ocr_limit - ocr_count)
                   ELSE Str("unlimited")]

\* get_ocr_quota_status
GetQuotaStatus(p, u) ==
    /\ Free(p)
    /\ \E now \in Readings :
         LET c == [IdleCall EXCEPT !.op = "quota_status", !.user = u]
             ocr_limit == OcrLimit(u)
             ocr_count == CountThisMonth(u, now)
         IN  /\ clock' = now
             /\ Return(p, c, "OK", QuotaStatus(ocr_limit, ocr_count))
    /\ UNCHANGED <<aircraft, scans, downstream, issued, config>>

(***************************************************************************)
(* routes/aircraft.py: get_aircraft and update_aircraft.  Both work on the *)
(* collection db.aircraft; create_aircraft and the handlers of the scans   *)
(* work on db.aircrafts, and nothing inserts into db.aircraft.             *)
(***************************************************************************)
\* db.aircraft.find_one({"_id": aircraft_id, "user_id": current_user.id}) is not None
FindAircraft(u, a) == a \in DOMAIN aircraft /\ aircraft[a].user_id = u

\* get_aircraft
GetAircraft(p, u, a) ==
    /\ Free(p)
    /\ LET c == [IdleCall EXCEPT !.op = "get_aircraft", !.user = u, !.aircraft_id = a]
       IN  IF FindAircraft(u, a)
           THEN Return(p, c, "OK", aircraft[a])
           ELSE Return(p, c, "NotFound", Null)
    /\ UNCHANGED <<aircraft, clock, scans, downstream, issued, config>>

\* The hour counters a direct edit may send
HourEdits ==
    {[airframe_hours |-> Num(1700)],
     [engine_hours |-> Num(0), propeller_hours |-> Num(100)]}

\* update_aircraft: the lookup, the $set of the fields sent, and the document
\* read back
UpdateAircraft(p, u, a, update_data) ==
    /\ Free(p)
    /\ LET c == [IdleCall EXCEPT !.op = "update_aircraft", !.user = u,
                                 !.aircraft_id = a]
       IN  IF FindAircraft(u, a)
           THEN /\ aircraft' = [aircraft EXCEPT ![a] = update_data @@ @]
                /\ Return(p, c, "OK", update_data @@ aircraft[a])
           ELSE /\ aircraft' = aircraft
                /\ Return(p, c, "NotFound", Null)
    /\ UNCHANGED <<clock, scans, downstream, issued, config>>

(***************************************************************************)
(* routes/aircraft.py: create_aircraft, get_user_aircraft and              *)
(* delete_aircraft; routes/components.py: get_component_settings.          *)
(* create_aircraft counts, looks up and inserts in db.aircrafts; the other *)
(* three read and write db.aircraft.                                       *)
(***************************************************************************)
\* current_user.limits.max_aircrafts: the cap of the limited plan, -1 for the
\* unlimited one
AircraftCap == 2
MaxAircrafts(u) == IF u = "u1" THEN AircraftCap ELSE -1

\* The registrations a caller may send
Registrations == {"C-FABC", " c-fabc ", "C-GXYZ"}

\* A registration returned as it was sent
format_registration_unchanged(registration) == registration

\* format_registration: registration.upper().strip()
format_registration(registration) ==
    IF registration = " c-fabc " THEN "C-FABC" ELSE registration

\* db.aircrafts.count_documents({"user_id": current_user.id})
CountAircraft(u) == Cardinality({a \in DOMAIN aircrafts : aircrafts[a].user_id = u})

\* db.aircrafts.find_one({"user_id": ..., "registration": registration}) is not None
RegistrationExists(u, registration) ==
    \E a \in DOMAIN aircrafts :
        /\ aircrafts[a].user_id = u
        /\ "registration" \in DOMAIN aircrafts[a]
        /\ aircrafts[a].registration = registration

\* lines 36-45: the lookup of the registration, after which the call goes on to
\* the insert or is refused
CreateLookup(p, c) ==
    IF RegistrationExists(c.user, c.registration)
    THEN Return(p, c, "BadRequest", Null)
    ELSE Continue(p, [c EXCEPT !.pc = "create_insert"])

\* create_aircraft, lines 25-45: the count of the caller's aircraft when the
\* plan has a cap, which is the first await; for a plan without a cap the
\* first await is the lookup of the registration
CreateAircraft(p, u, registration) ==
    /\ Free(p)
    /\ LET c == [IdleCall EXCEPT !.op = "create_aircraft", !.user = u,
                                 !.registration = format_registration(registration)]
       IN  IF MaxAircrafts(u) # -1
           THEN IF CountAircraft(u) >= MaxAircrafts(u)
                THEN Return(p, c, "Forbidden", Null)
                ELSE Continue(p, [c EXCEPT !.pc = "create_lookup"])
           ELSE CreateLookup(p, c)
    /\ UNCHANGED <<aircraft, clock, scans, downstream, issued, config>>

\* lines 36-45, for a plan with a cap
CreateAircraftLookup(p) ==
    /\ call[p].op = "create_aircraft" /\ call[p].pc = "create_lookup"
    /\ CreateLookup(p, call[p])
    /\ UNCHANGED <<aircraft, clock, scans, downstream, issued, config>>

\* lines 48-71: the id is the clock reading; insert_one raises on an id that
\* is stored already
CreateAircraftInsert(p) ==
    /\ call[p].op = "create_aircraft" /\ call[p].pc = "create_insert"
    /\ \E now \in Readings :
         LET c == call[p]
             aircraft_id == ToString(now)
             aircraft_dict == [user_id |-> c.user, registration |-> c.registration,
                               airframe_hours |-> Num(1500), engine_hours |-> Num(1200),
                               propeller_hours |-> Num(1200)]
         IN  /\ clock' = now
             /\ IF aircraft_id \in DOMAIN aircrafts
                THEN /\ aircrafts' = aircrafts
                     /\ Return(p, c, "ServiceError", Null)
                ELSE /\ aircrafts' = (aircraft_id :> aircraft_dict) @@ aircrafts
                     /\ Return(p, [c EXCEPT !.aircraft_id = aircraft_id], "OK",
                               [id |-> aircraft_id] @@ aircraft_dict)
    /\ UNCHANGED <<aircraft, scans, maintenance_records, adsb_records, part_records,
                   stc_records, elt_records, issued, config>>

\* cursor.to_list(length=100)
ListLength == 100

\* get_user_aircraft: the caller's documents of db.aircraft, newest first
ListAircraft(p, u) ==
    /\ Free(p)
    /\ LET c == [IdleCall EXCEPT !.op = "list_aircraft", !.user = u]
           found == {a \in DOMAIN aircraft : aircraft[a].user_id = u}
           sorted == CHOOSE s \in [1..Cardinality(found) -> found] :
                        /\ \A i, j \in DOMAIN s : i # j => s[i] # s[j]
                        /\ \A i, j \in DOMAIN s :
                              i < j => aircraft[s[i]].created_at >= aircraft[s[j]].created_at
       IN  Return(p, c, "OK", Lst(Take(sorted, ListLength)))
    /\ UNCHANGED <<aircraft, clock, scans, downstream, issued, config>>

\* delete_aircraft: db.aircraft.delete_one({"_id": ..., "user_id": ...})
DeleteAircraft(p, u, a) ==
    /\ Free(p)
    /\ LET c == [IdleCall EXCEPT !.op = "delete_aircraft", !.user = u, !.aircraft_id = a]
       IN  IF FindAircraft(u, a)
           THEN /\ aircraft' = [x \in DOMAIN aircraft \ {a} |-> aircraft[x]]
                /\ Return(p, c, "OK", Null)
           ELSE /\ aircraft' = aircraft
                /\ Return(p, c, "NotFound", Null)
    /\ UNCHANGED <<clock, scans, downstream, issued, config>>

\* get_component_settings, lines 23-36: the aircraft check; the settings
\* returned after it are not modelled
GetComponentSettings(p, u, a) ==
    /\ Free(p)
    /\ LET c == [IdleCall EXCEPT !.op = "component_settings", !.user = u,
                                 !.aircraft_id = a]
       IN  IF FindAircraft(u, a)
           THEN Return(p, c, "OK", [aircraft_id |-> a])
           ELSE Return(p, c, "NotFound", Null)
    /\ UNCHANGED <<aircraft, clock, scans, downstream, issued, config>>

(***************************************************************************)
(* The specifications                                                      *)
(***************************************************************************)
Procs == {1, 2}

\* What the backend may do in the concurrent specification
ConcurrentReplies ==
    {BackendError("timeout"),
     BackendText(<<"{", "A", "}">>),
     BackendText(<<"{", "NullRef", "}">>),
     BackendText(<<"{", "Elt", "}">>)}

\* ... and in the sequential one
AllReplies ==
    {BackendError("timeout"),
     BackendText(<<"Sorry, I cannot read this image.">>),
     BackendText(<<"null">>),
     BackendText(<<"42">>),
     BackendText(<<"Here is the JSON:", "\n", FenceJson, "\n", "{", "A", "}", "\n", Fence>>)}
    \cup {BackendText(<<"{", b, "}">>) : b \in JsonBodyNames}

InitStores ==
    /\ clock = 0
    /\ scans = EmptyDict
    /\ aircrafts = [a \in AircraftIds |->
          [user_id |-> IF a = "a1" THEN "u1" ELSE "u2",
           airframe_hours |-> Num(1500), engine_hours |-> Num(1200),
           propeller_hours |-> Num(1200)]]
    /\ aircraft = EmptyDict
    /\ maintenance_records = <<>>
    /\ adsb_records = <<>>
    /\ part_records = <<>>
    /\ stc_records = <<>>
    /\ elt_records = <<>>
    /\ call = [p \in Procs |-> IdleCall]
    /\ issued = [submit |-> 0, apply |-> 0, delete |-> 0]
    /\ returned = NoReturn

\* Two workers serving the calls of one user concurrently
Init ==
    /\ InitStores
    /\ config = [procs |-> Procs, users |-> {"u1"},
                 doctypes |-> {"maintenance_report", "other"},
                 replies |-> ConcurrentReplies, flags |-> {TRUE},
                 max_submits |-> MaxSubmits, max_applies |-> MaxApplies,
                 max_deletes |-> MaxDeletes, faults |-> FALSE]

\* One worker: no two calls overlap; every reply, every document type
SeqInit ==
    /\ InitStores
    /\ config = [procs |-> {1}, users |-> Users,
                 doctypes |-> DocumentTypes,
                 replies |-> AllReplies, flags |-> BOOLEAN,
                 max_submits |-> SeqMaxSubmits, max_applies |-> MaxApplies,
                 max_deletes |-> MaxDeletes, faults |-> FALSE]

\* One worker and many submits, for the quota
QuotaInit ==
    /\ InitStores
    /\ config = [procs |-> {1}, users |-> Users,
                 doctypes |-> {"other"},
                 replies |-> {BackendError("timeout"), BackendText(<<"{", "Elt", "}">>)},
                 flags |-> {TRUE},
                 max_submits |-> QuotaMaxSubmits, max_applies |-> QuotaMaxApplies,
                 max_deletes |-> MaxDeletes, faults |-> FALSE]

\* One worker and a database whose writes may fail during apply
FaultInit ==
    /\ InitStores
    /\ config = [procs |-> {1}, users |-> {"u1"},
                 doctypes |-> {"maintenance_report", "other"},
                 replies |-> {BackendText(<<"{", "A", "}">>),
                              BackendText(<<"{", "Work", "}">>),
                              BackendText(<<"{", "Elt", "}">>)},
                 flags |-> BOOLEAN,
                 max_submits |-> SeqMaxSubmits, max_applies |-> MaxApplies,
                 max_deletes |-> MaxDeletes, faults |-> TRUE]

\* One worker and the replies that are texts of at most MaxTokens tokens
MaxTokens == 3
SanitizeTokens == {"{", "}", FenceJson, Fence, "\n", "Here is the JSON:", "Elt"}
TokenTexts == UNION {[1..n -> SanitizeTokens] : n \in 0..MaxTokens}
SanitizeInit ==
    /\ InitStores
    /\ config = [procs |-> {1}, users |-> {"u1"},
                 doctypes |-> {"other"},
                 replies |-> {BackendError("timeout")}
                             \cup {BackendText(toks) : toks \in TokenTexts},
                 flags |-> BOOLEAN,
                 max_submits |-> SeqMaxSubmits, max_applies |-> MaxApplies,
                 max_deletes |-> MaxDeletes, faults |-> FALSE]

ScanIds == 0..MaxClock

Next ==
    \/ \E p \in config.procs, u \in config.users, a \in AircraftIds, dt \in config.doctypes :
          SubmitCheck(p, u, a, dt)
    \/ \E p \in config.procs : SubmitInsert(p)
    \/ \E p \in config.procs : SubmitStore(p)
    \/ \E p \in config.procs : SubmitRespond(p)
    \/ \E p \in config.procs, u \in config.users, id \in ScanIds, flag \in config.flags :
          ApplyRead(p, u, id, flag)
    \/ \E p \in config.procs : ApplyHours(p)
    \/ \E p \in config.procs : ApplyRecords(p)
    \/ \E p \in config.procs : ApplyEltFind(p)
    \/ \E p \in config.procs : ApplyEltWrite(p)
    \/ \E p \in config.procs : ApplyFinish(p)
    \/ \E p \in config.procs, u \in config.users, id \in ScanIds : Delete(p, u, id)

Spec == Init /\ [][Next]_vars
SeqSpec == SeqInit /\ [][Next]_vars
\* Two workers serving two users, and the read-only handlers with them
AccessInit ==
    /\ InitStores
    /\ config = [procs |-> Procs, users |-> Users,
                 doctypes |-> {"other"},
                 replies |-> {BackendError("timeout"), BackendText(<<"{", "Elt", "}">>)},
                 flags |-> {TRUE},
                 max_submits |-> SeqMaxSubmits, max_applies |-> MaxApplies,
                 max_deletes |-> AccessMaxDeletes, faults |-> FALSE]

ReadNext ==
    \/ Next
    \/ \E p \in config.procs, u \in config.users, id \in ScanIds : GetScan(p, u, id)
    \/ \E p \in config.procs, u \in config.users, a \in AircraftIds,
          limit \in HistoryLimits : GetHistory(p, u, a, limit)
    \/ \E p \in config.procs, u \in config.users : GetQuotaStatus(p, u)

\* One worker, and the aircraft handlers with those of the scans
AircraftInit ==
    /\ InitStores
    /\ config = [procs |-> {1}, users |-> Users,
                 doctypes |-> {"maintenance_report", "other"},
                 replies |-> {BackendText(<<"{", "A", "}">>),
                              BackendText(<<"{", "Elt", "}">>)},
                 flags |-> {TRUE},
                 max_submits |-> SeqMaxSubmits, max_applies |-> MaxApplies,
                 max_deletes |-> MaxDeletes, faults |-> FALSE]

AircraftNext ==
    \/ Next
    \/ \E p \in config.procs, u \in config.users, a \in AircraftIds : GetAircraft(p, u, a)
    \/ \E p \in config.procs, u \in config.users, a \in AircraftIds,
          update_data \in HourEdits : UpdateAircraft(p, u, a, update_data)

\* The ids an aircraft may be created under
CreatedIds == {ToString(t) : t \in 0..MaxClock}

\* Two workers serving the aircraft handlers and submit; every stored aircraft
\* has a registration
FleetInit ==
    /\ clock = 0
    /\ scans = EmptyDict
    /\ aircrafts = [a \in AircraftIds |->
          [user_id |-> IF a = "a1" THEN "u1" ELSE "u2",
           registration |-> "C-GXYZ",
           airframe_hours |-> Num(1500), engine_hours |-> Num(1200),
           propeller_hours |-> Num(1200)]]
    /\ aircraft = EmptyDict
    /\ maintenance_records = <<>>
    /\ adsb_records = <<>>
    /\ part_records = <<>>
    /\ stc_records = <<>>
    /\ elt_records = <<>>
    /\ call = [p \in Procs |-> IdleCall]
    /\ issued = [submit |-> 0, apply |-> 0, delete |-> 0]
    /\ returned = NoReturn
    /\ config = [procs |-> Procs, users |-> Users,
                 doctypes |-> {"other"},
                 replies |-> {BackendText(<<"{", "Elt", "}">>)},
                 flags |-> {TRUE},
                 max_submits |-> SeqMaxSubmits, max_applies |-> QuotaMaxApplies,
                 max_deletes |-> MaxDeletes, faults |-> FALSE]

FleetNext ==
    \/ \E p \in config.procs, u \in config.users, a \in AircraftIds \cup CreatedIds,
          dt \in config.doctypes : SubmitCheck(p, u, a, dt)
    \/ \E p \in config.procs : SubmitInsert(p)
    \/ \E p \in config.procs : SubmitStore(p)
    \/ \E p \in config.procs : SubmitRespond(p)
    \/ \E p \in config.procs, u \in config.users, registration \in Registrations :
          CreateAircraft(p, u, registration)
    \/ \E p \in config.procs : CreateAircraftLookup(p)
    \/ \E p \in config.procs : CreateAircraftInsert(p)
    \/ \E p \in config.procs, u \in config.users : ListAircraft(p, u)
    \/ \E p \in config.procs, u \in config.users, a \in AircraftIds \cup CreatedIds :
          DeleteAircraft(p, u, a)
    \/ \E p \in config.procs, u \in config.users, a \in AircraftIds \cup CreatedIds :
          GetComponentSettings(p, u, a)
    \/ \E p \in config.procs, u \in config.users, a \in AircraftIds \cup CreatedIds :
          GetAircraft(p, u, a)
    \/ \E p \in config.procs, u \in config.users, a \in AircraftIds \cup CreatedIds,
          update_data \in HourEdits : UpdateAircraft(p, u, a, update_data)

FleetSpec == FleetInit /\ [][FleetNext]_vars

QuotaSpec == QuotaInit /\ [][Next]_vars
AircraftSpec == AircraftInit /\ [][AircraftNext]_vars
AccessSpec == AccessInit /\ [][ReadNext]_vars
ReadSpec == QuotaInit /\ [][ReadNext]_vars
FaultSpec == FaultInit /\ [][Next]_vars

\* ... and on every short text
SanitizeSpec == SanitizeInit /\ [][Next]_vars

(***************************************************************************)
(* The claims                                                              *)
(***************************************************************************)
\* The scans present before and after a step whose status the step changed
Changed == {id \in DOMAIN scans \cap DOMAIN scans' : scans[id].status # scans'[id].status}

\* C1: every change of a scan's status is PROCESSING -> COMPLETED, PROCESSING ->
\* FAILED or COMPLETED -> APPLIED, whatever the interleaving of submit, apply and
\* delete; so a COMPLETED or APPLIED scan never becomes FAILED and an APPLIED
\* scan never changes status.  The code breaks it: scan_document stores
\* COMPLETED and then builds its response, and an extraction the response model
\* rejects sends it through "except Exception", which stores FAILED.
C1_OnlyLegalStatusChanges ==
    [][\A id \in Changed :
          <<scans[id].status, scans'[id].status>> \in
              {<<"PROCESSING", "COMPLETED">>, <<"PROCESSING", "FAILED">>,
               <<"COMPLETED", "APPLIED">>}]_vars

\* The step is the return of an apply call that found the scan it names
ApplyReturns(id) ==
    /\ returned'.op = "apply" /\ returned'.scan_id = id
    /\ returned'.result # "NotFound"
    /\ id \in DOMAIN scans

\* C2: of the apply calls made one after the other on a completed scan, the
\* first succeeds and leaves the scan APPLIED, and each later one is rejected
\* with InvalidState and creates no downstream record.  Checked where no two
\* calls overlap.  The code breaks it on a completed scan whose stored
\* extraction is null: every apply of it raises and answers 500.
C2_ApplyOnceThenInvalidState ==
    [][\A id \in ScanIds :
          ApplyReturns(id) =>
              /\ scans[id].status = "COMPLETED" =>
                    /\ returned'.result = "OK"
                    /\ id \in DOMAIN scans' /\ scans'[id].status = "APPLIED"
              /\ scans[id].status = "APPLIED" =>
                    /\ returned'.result = "InvalidState"
                    /\ downstream' = downstream]_vars

\* The records of a collection that were created from scan id
FromScan(records, id) == SelectSeq(records, LAMBDA r : r.ocr_scan_id = id)

\* The entries of a stored extraction's list that carry the key
KeyedEntries(scan, list, key) ==
    IF scan.extracted_data.t # "obj" THEN <<>>
    ELSE Keyed(IterPrefix(GetD(scan.extracted_data.v, list, Lst(<<>>))), key)

\* C3: of two apply calls that run concurrently on one completed scan, at most
\* one observes it as completed and creates records: the records created from a
\* scan are never more than one per directive and one per part of its
\* extraction.  The code breaks it: the status is read, and written at the end,
\* with no conditional update in between, so both calls pass the check and both
\* insert.
C3_AtMostOneApplyCreatesRecords ==
    \A id \in DOMAIN scans :
        /\ Len(FromScan(adsb_records, id))
              <= Len(KeyedEntries(scans[id], "ad_sb_references", "reference_number"))
        /\ Len(FromScan(part_records, id))
              <= Len(KeyedEntries(scans[id], "parts_replaced", "part_number"))

\* The step is the aircraft and quota check of a submit by u for aircraft a
SubmitChecked(u, a) ==
    \/ /\ returned'.op = "submit" /\ returned'.user = u /\ returned'.aircraft_id = a
       /\ returned'.result \in {"NotFound", "QuotaExceeded"}
    \/ \E p \in config.procs :
          /\ call[p].pc = "idle" /\ call'[p].pc = "insert"
          /\ call'[p].user = u /\ call'[p].aircraft_id = a

\* The scans of u created in the calendar month of the time now
ScansThisMonth(u, now) ==
    {id \in DOMAIN scans :
        /\ scans[id].user_id = u
        /\ scans[id].created_at \div TicksPerMonth = now \div TicksPerMonth}

\* C4: a submit, for an aircraft of the caller, by a user whose plan limit is N
\* (not the unlimited sentinel -1) and who has N scans created in the current
\* calendar month is rejected with QuotaExceeded; a submit by a user on the
\* unlimited sentinel is never rejected with QuotaExceeded, whatever the count.
C4_QuotaBoundary ==
    [][\A u \in Users, a \in AircraftIds :
          (SubmitChecked(u, a) /\ aircrafts[a].user_id = u) =>
              LET N == UserDocs[u].limits.ocr_per_month
              IN  /\ (N # -1 /\ Cardinality(ScansThisMonth(u, clock')) = N) =>
                        /\ returned'.op = "submit"
                        /\ returned'.result = "QuotaExceeded"
                  /\ N = -1 => returned'.result # "QuotaExceeded"]_vars

\* u1, on the limited plan, has just been refused at the limit while u2, on the
\* unlimited plan, holds more scans than that limit
C4_Witness ==
    /\ returned.op = "submit" /\ returned.user = "u1"
    /\ returned.result = "QuotaExceeded"
    /\ Cardinality(ScansThisMonth("u1", clock)) = PlanLimit
    /\ Cardinality({id \in DOMAIN scans : scans[id].user_id = "u2"}) > PlanLimit

\* The step is the lookup and status check of an apply by u of scan id: a call
\* starts, and either returns at once or goes on
ApplyChecked(u, id) ==
    /\ \A q \in config.procs : call[q].pc # "idle" => call'[q] = call[q]
    /\ \/ returned'.op = "apply" /\ returned'.user = u /\ returned'.scan_id = id
       \/ \E p \in config.procs :
             /\ call[p].pc = "idle" /\ call'[p].op = "apply"
             /\ call'[p].user = u /\ call'[p].scan_id = id

\* C5: apply on a scan of the caller whose status is not COMPLETED (PROCESSING,
\* FAILED or APPLIED) returns InvalidState and leaves the maintenance, AD/SB,
\* part, STC and ELT records, the aircraft and the scan record unchanged.
C5_ApplyNotCompletedChangesNothing ==
    [][\A u \in Users, id \in ScanIds :
          (/\ ApplyChecked(u, id)
           /\ id \in DOMAIN scans /\ scans[id].user_id = u
           /\ scans[id].status \in {"PROCESSING", "FAILED", "APPLIED"}) =>
              /\ returned'.op = "apply" /\ returned'.result = "InvalidState"
              /\ downstream' = downstream
              /\ scans' = scans]_vars

\* An apply has just been refused on a scan still in PROCESSING
C5_Witness ==
    /\ returned.op = "apply" /\ returned.result = "InvalidState"
    /\ returned.scan_id \in DOMAIN scans
    /\ scans[returned.scan_id].status = "PROCESSING"

\* A stored maintenance_report scan whose extraction holds a non-zero
\* airframe-hours reading, one directive with a reference number, one part with
\* a part number, and nothing else
ScenarioA(scan) ==
    /\ scan.document_type = "maintenance_report"
    /\ scan.extracted_data.t = "obj"
    /\ LET ed == scan.extracted_data.v
           refs == Get(ed, "ad_sb_references")
           parts == Get(ed, "parts_replaced")
       IN  /\ Get(ed, "airframe_hours").t = "num" /\ Get(ed, "airframe_hours").v # 0
           /\ refs.t = "list" /\ Len(refs.v) = 1 /\ refs.v[1].t = "obj"
           /\ Truthy(Get(refs.v[1].v, "reference_number"))
           /\ parts.t = "list" /\ Len(parts.v) = 1 /\ parts.v[1].t = "obj"
           /\ Truthy(Get(parts.v[1].v, "part_number"))
           /\ Get(ed, "stc_references") = Lst(<<>>)
           /\ \A k \in {"description", "work_order_number", "engine_hours",
                        "propeller_hours", "elt_data"} : Get(ed, k) = Null

\* The effect, step by step, of an accepted apply with update_aircraft_hours of a
\* scenario-A scan, with n maintenance records created
ScenarioAEffect(n) ==
    \A p \in config.procs :
        LET c == call[p]
            moves == call'[p] # c
        IN  /\ (/\ c.pc = "idle" /\ call'[p].op = "apply"
                /\ call'[p].update_aircraft_hours /\ ScenarioA(call'[p].scan))
                  => call'[p].pc = "hours"
            /\ (/\ moves /\ c.op = "apply" /\ c.update_aircraft_hours
                /\ c.scan # Null /\ ScenarioA(c.scan)) =>
                  /\ c.pc = "hours" =>
                        /\ aircrafts'[c.aircraft_id].airframe_hours
                              = c.scan.extracted_data.v["airframe_hours"]
                        /\ call'[p].pc = "records"
                  /\ c.pc = "records" =>
                        /\ Len(maintenance_records') = Len(maintenance_records) + n
                        /\ Len(adsb_records') = Len(adsb_records) + 1
                        /\ Len(part_records') = Len(part_records) + 1
                        /\ stc_records' = stc_records /\ elt_records' = elt_records
                        /\ call'[p].pc = "finish"
                  /\ c.pc = "finish" =>
                        /\ returned'.op = "apply" /\ returned'.result = "OK"
                        /\ c.scan_id \in DOMAIN scans'
                        /\ scans'[c.scan_id].status = "APPLIED"
                        /\ aircrafts'[c.aircraft_id].airframe_hours
                              = c.scan.extracted_data.v["airframe_hours"]

NumberOrAbsent(x) == x.t \in {"num", "null"}

\* The same, for the keys of every mapping of a list
ItemsNumberOrAbsent(coll, keys) ==
    coll.t = "list" =>
        \A i \in 1..Len(coll.v) :
            coll.v[i].t = "obj" => \A k \in keys : NumberOrAbsent(Get(coll.v[i].v, k))

\* C7: in the extracted_data stored on a completed scan, of any document type,
\* every numeric field - the three hour counters, the cost figures, the price and
\* quantity of a part, the hour counters of a directive - is a number or absent.
\* The code breaks it: the normalizer copies a part's quantity without
\* _safe_float, and copies a logbook or other payload whole.
C7_NumericFieldsNumberOrAbsent ==
    \A id \in DOMAIN scans :
        (scans[id].status = "COMPLETED" /\ scans[id].extracted_data.t = "obj") =>
            LET ed == scans[id].extracted_data.v
            IN  /\ \A k \in HourKeys \cup {"labor_cost", "parts_cost", "total_cost"} :
                      NumberOrAbsent(Get(ed, k))
                /\ ItemsNumberOrAbsent(Get(ed, "ad_sb_references"), HourKeys)
                /\ ItemsNumberOrAbsent(Get(ed, "parts_replaced"), {"price", "quantity"})

\* What json.loads made of the reply a call holds
ParsedReply(c) == json_loads(clean_json_response(c.reply.raw))

\* A submit call holds the normalization of a maintenance_report payload whose
\* directives are a list of mappings
NormalizedDirectives(c) ==
    /\ c.op = "submit" /\ c.pc = "respond"
    /\ c.document_type = "maintenance_report"
    /\ ParsedReply(c).ok /\ ParsedReply(c).val.t = "obj"
    /\ LET refs == Get(ParsedReply(c).val.v, "ad_sb_references")
       IN  refs.t = "list" /\ \A i \in 1..Len(refs.v) : refs.v[i].t = "obj"

DirectivesIn(c) ==
    LET refs == ParsedReply(c).val.v["ad_sb_references"].v
    IN  [i \in 1..Len(refs) |-> refs[i].v]
DirectivesOut(c) ==
    LET refs == c.ocr_result.extracted_data.v["ad_sb_references"].v
    IN  [i \in 1..Len(refs) |-> refs[i].v]

SubmitReturnedOnText ==
    /\ returned.op = "submit" /\ returned.reply.kind = "text"
    /\ returned.scan_id \in DOMAIN scans

\* The text holds a JSON object: the tokens of one, brace to brace
HoldsJsonObject(toks) ==
    \E i \in 1..Len(toks) :
        /\ i + 2 <= Len(toks)
        /\ toks[i] = "{" /\ toks[i + 1] \in JsonBodyNames /\ toks[i + 2] = "}"

\* C9: normalize returns a canonical record without raising for every parsed
\* JSON object and every document type - sub-collections that are null included -
\* so a submit whose backend reply parses as a JSON object never ends FAILED
\* because of normalization: if it fails, it is the response that was refused.
\* The code breaks it: data.get("ad_sb_references", []) is None for a null
\* sub-collection, the comprehension over it raises TypeError, analyze_image
\* reports the failure and the scan ends FAILED.
C9_NormalizeNeverFailsSubmit ==
    (SubmitReturnedOnText /\ HoldsJsonObject(returned.reply.raw)) =>
        \/ scans[returned.scan_id].status # "FAILED"
        \/ scans[returned.scan_id].error_message = Str("ValidationError")

\* C10: when the backend replies with a text that holds no parseable JSON
\* object, submit still ends with the scan COMPLETED, its raw_text the reply
\* unmodified, and returns a completed result, for every document type.  Checked
\* where no two calls overlap.  The code breaks it on a reply that is JSON but
\* no object (null, 42): json.loads succeeds, no fallback record is built, and
\* the normalizer or the response model raises on the value.
C10_UnparseableReplyCompletes ==
    (SubmitReturnedOnText /\ ~HoldsJsonObject(returned.reply.raw)) =>
        /\ returned.result = "OK"
        /\ returned.response.status = "COMPLETED"
        /\ returned.response.raw_text = Text(returned.reply.raw)
        /\ scans[returned.scan_id].status = "COMPLETED"
        /\ scans[returned.scan_id].raw_text = Text(returned.reply.raw)

\* A submit has just returned, the scan it created is still stored, and no
\* later submit still in flight has stored a scan under the same id
SubmitReturnedWithScan ==
    /\ returned.op = "submit"
    /\ returned.scan_id \in DOMAIN scans
    /\ \A p \in config.procs :
          ~(call[p].op = "submit" /\ call[p].scan_id = returned.scan_id)

\* C11: when the call to the extraction backend raises (an error or a timeout),
\* submit returns an error and leaves the scan FAILED with the exception's
\* message as error_message; and no submit, successful or not, returns leaving
\* the scan it created PROCESSING.
C11_BackendErrorEndsFailed ==
    SubmitReturnedWithScan =>
        /\ scans[returned.scan_id].status # "PROCESSING"
        /\ returned.reply.kind = "error" =>
              /\ returned.result = "ServiceError"
              /\ scans[returned.scan_id].status = "FAILED"
              /\ scans[returned.scan_id].error_message = Str(returned.reply.msg)

\* A submit whose backend call timed out has just returned an error, and its
\* scan is FAILED with the timeout's message
C11_Witness ==
    /\ SubmitReturnedWithScan
    /\ returned.reply = BackendError("timeout")
    /\ returned.result = "ServiceError"
    /\ scans[returned.scan_id].status = "FAILED"
    /\ scans[returned.scan_id].error_message = Str("timeout")

\* C12: in every reachable state, whatever the interleaving of submit and apply
\* calls, a scan's error_message is set only if its status is FAILED.  The
\* code breaks it: an apply that read the scan COMPLETED, before the submit's
\* response was refused and the scan rewritten FAILED, ends by writing APPLIED
\* over the failed scan, whose error_message stays.
C12_ErrorMessageOnlyWhenFailed ==
    \A id \in DOMAIN scans :
        scans[id].error_message # Null => scans[id].status = "FAILED"

\* Every id of the list names a record of the collection created from the scan
RecordsOfScan(ids, records, scan_id) ==
    \A i \in 1..Len(ids) :
        \E j \in 1..Len(records) :
            Num(records[j].id) = ids[i] /\ records[j].ocr_scan_id = scan_id

\* Every write of the batch of apply call c is in the stores: the hours it was
\* asked to update, one record per keyed entry of the extraction, the
\* maintenance record and the ELT record, all listed in the scan as applied
BatchWritten(c, stored) ==
    LET ed == c.scan.extracted_data.v
    IN  /\ c.update_aircraft_hours =>
              \A k \in DOMAIN HoursUpdate(ed) : aircrafts'[c.aircraft_id][k] = ed[k]
        /\ WantsMaintenance(ed) =>
              RecordsOfScan(<<stored.applied_maintenance_id>>, maintenance_records', c.scan_id)
        /\ Len(stored.applied_adsb_ids) =
              Len(KeyedEntries(c.scan, "ad_sb_references", "reference_number"))
        /\ RecordsOfScan(stored.applied_adsb_ids, adsb_records', c.scan_id)
        /\ Len(stored.applied_part_ids) =
              Len(KeyedEntries(c.scan, "parts_replaced", "part_number"))
        /\ RecordsOfScan(stored.applied_part_ids, part_records', c.scan_id)
        /\ Len(stored.applied_stc_ids) =
              Len(KeyedEntries(c.scan, "stc_references", "stc_number"))
        /\ RecordsOfScan(stored.applied_stc_ids, stc_records', c.scan_id)
        /\ EltDetected(ed) =>
              RecordsOfScan(<<stored.applied_elt_id>>, elt_records', c.scan_id)

\* C13: an apply call answered with a ServiceError - as it is when a write of
\* its batch fails - leaves every scan as it was, the scan it names still
\* COMPLETED; and a scan becomes APPLIED only in the last step of an apply call
\* that returns successfully and whose every write is in the stores.  Checked
\* with one worker and a database whose writes may fail.
C13_AppliedOnlyAfterAllWrites ==
    [][/\ \A p \in config.procs :
             (call[p].op = "apply" /\ call'[p].op = "idle") =>
                 /\ returned'.result \in {"OK", "ServiceError"}
                 /\ returned'.result = "ServiceError" =>
                       /\ scans' = scans
                       /\ call[p].scan_id \in DOMAIN scans =>
                             scans[call[p].scan_id].status = "COMPLETED"
                 /\ (returned'.result = "OK" /\ call[p].scan_id \in DOMAIN scans) =>
                       scans'[call[p].scan_id].status = "APPLIED"
       /\ \A id \in Changed :
             scans'[id].status = "APPLIED" =>
                 \E p \in config.procs :
                     /\ call[p].op = "apply" /\ call[p].scan_id = id
                     /\ call'[p].op = "idle" /\ returned'.result = "OK"
                     /\ BatchWritten(call[p], scans'[id])]_vars

\* An apply has just been answered with a ServiceError because the insert of
\* the part record failed: the compliance record inserted before it is stored,
\* the part record is not, and the scan is still COMPLETED
C13_Witness ==
    /\ returned.op = "apply" /\ returned.result = "ServiceError"
    /\ returned.response = Str("WriteError")
    /\ returned.scan_id \in DOMAIN scans
    /\ scans[returned.scan_id].status = "COMPLETED"
    /\ Len(KeyedEntries(scans[returned.scan_id], "parts_replaced", "part_number")) = 1
    /\ Len(FromScan(adsb_records, returned.scan_id)) = 1
    /\ Len(FromScan(part_records, returned.scan_id)) = 0

\* The step is a whole call op by u on scan id: it starts and returns at once
OneStepCall(op, u, id) ==
    /\ call' = call
    /\ returned'.op = op /\ returned'.user = u /\ returned'.scan_id = id

\* The step answers NotFound, with nothing else in the answer, and writes nothing
RefusedNotFound ==
    /\ returned'.result = "NotFound" /\ returned'.response = Null
    /\ scans' = scans /\ downstream' = downstream

\* C14: a get, an apply or a delete on a scan id that is stored for another
\* user is answered as on an id that is not stored at all: NotFound and nothing
\* more - never InvalidState, whatever the status of the other user's scan -
\* and no scan, aircraft or downstream record changes.
C14_NotOwnedIsNotFound ==
    [][\A u \in Users, id \in ScanIds :
          (id \in DOMAIN scans => scans[id].user_id # u) =>
              /\ OneStepCall("get", u, id) => RefusedNotFound
              /\ OneStepCall("delete", u, id) => RefusedNotFound
              /\ ApplyChecked(u, id) => (returned'.op = "apply" /\ RefusedNotFound)]_vars

\* A call has just been refused with NotFound on a stored scan of another user
RefusedOnScanOf(op, status) ==
    /\ returned.op = op /\ returned.result = "NotFound"
    /\ returned.scan_id \in DOMAIN scans
    /\ scans[returned.scan_id].user_id # returned.user
    /\ scans[returned.scan_id].status = status

\* An apply has just been refused with NotFound on another user's scan that is
\* already APPLIED
C14_Witness == RefusedOnScanOf("apply", "APPLIED")

\* C15: after a successful apply with update_aircraft_hours = true, each hour
\* counter of the aircraft (airframe, engine, propeller) for which the
\* extraction holds a reading - any number, 0 and values below the current
\* counter included - equals that reading, and no step of the call changes a
\* counter for which the extraction holds no reading.  Checked where no two
\* calls overlap.  The code breaks it: the reading is tested for truthiness, so
\* a reading of 0 is skipped and the counter keeps its old value.
C15_HoursEqualReadings ==
    [][\A p \in config.procs :
          (call[p].op = "apply" /\ call[p].update_aircraft_hours
           /\ call[p].scan # Null) =>
              LET a == call[p].aircraft_id
                  ed == call[p].scan.extracted_data.v
              IN  \A k \in HourKeys :
                      IF Get(ed, k).t = "num"
                      THEN (call'[p].op = "idle" /\ returned'.result = "OK") =>
                               aircrafts'[a][k] = Get(ed, k)
                      ELSE aircrafts'[a][k] = aircrafts[a][k]]_vars

\* C16: direct edits and the apply step write the same hour counters of an
\* aircraft, the last write winning: an update_aircraft by the owner succeeds
\* and leaves, in the counters apply writes, the values it sent, and a
\* get_aircraft by the owner succeeds and returns the counters as apply or the
\* last edit left them.  Checked where no two calls overlap.  The code breaks
\* it: get_aircraft and update_aircraft work on db.aircraft, apply and
\* create_aircraft on db.aircrafts.
C16_SharedHourCounters ==
    [][\A p \in config.procs, u \in Users, a \in AircraftIds :
          (a \in DOMAIN aircrafts /\ aircrafts[a].user_id = u) =>
              /\ \A update_data \in HourEdits :
                    UpdateAircraft(p, u, a, update_data) =>
                        /\ returned'.result = "OK"
                        /\ \A k \in DOMAIN update_data :
                              aircrafts'[a][k] = update_data[k]
              /\ GetAircraft(p, u, a) =>
                    /\ returned'.result = "OK"
                    /\ \A k \in HourKeys : returned'.response[k] = aircrafts[a][k]]_vars

\* The step is a whole get_ocr_history call that returned the scans it found
HistoryReturned ==
    /\ call' = call
    /\ returned'.op = "history" /\ returned'.result = "OK"

\* C17: a delete by the owner removes the scan whatever its status
\* (PROCESSING, COMPLETED, FAILED or APPLIED) and leaves every other scan, the
\* aircraft and the downstream records - those created from the scan included -
\* as they were; while the id is not stored, a get, an apply and another delete
\* on it answer NotFound, and no history lists it.
C17_DeleteRemovesWhateverStatus ==
    [][/\ \A u \in Users, id \in ScanIds :
             /\ (OneStepCall("delete", u, id) /\ id \in DOMAIN scans
                 /\ scans[id].user_id = u) =>
                    /\ returned'.result = "OK"
                    /\ DOMAIN scans' = DOMAIN scans \ {id}
                    /\ \A x \in DOMAIN scans' : scans'[x] = scans[x]
                    /\ downstream' = downstream
             /\ id \notin DOMAIN scans =>
                    /\ OneStepCall("get", u, id) => returned'.result = "NotFound"
                    /\ OneStepCall("delete", u, id) => returned'.result = "NotFound"
                    /\ ApplyChecked(u, id) =>
                          (returned'.op = "apply" /\ returned'.result = "NotFound")
       /\ HistoryReturned =>
             \A i \in DOMAIN returned'.response.v :
                 returned'.response.v[i].id \in DOMAIN scans]_vars

\* The owner has just deleted a scan that had been applied: the scan is gone
\* and the ELT record created from it is still stored
C17_Witness ==
    /\ returned.op = "delete" /\ returned.result = "OK"
    /\ returned.scan_id \notin DOMAIN scans
    /\ \E i \in 1..Len(elt_records) :
          /\ elt_records[i].ocr_scan_id = returned.scan_id
          /\ elt_records[i].user_id = returned.user

\* The step is a whole get_ocr_history call
HistoryCalled ==
    /\ call' = call
    /\ returned'.op = "history"

\* The scans of user u for aircraft a
ScansOfAircraft(u, a) ==
    {id \in DOMAIN scans : scans[id].user_id = u /\ scans[id].aircraft_id = a}

\* The list holds scans of u for a only, each once, newest first, and the
\* scans left out are none of them newer than a listed one
NewestOf(list, u, a) ==
    /\ \A i \in DOMAIN list : list[i].id \in ScansOfAircraft(u, a)
    /\ \A i, j \in DOMAIN list :
          i < j => /\ list[i].id # list[j].id
                   /\ list[i].created_at >= list[j].created_at
    /\ \A i \in DOMAIN list :
          /\ list[i].created_at = scans[list[i].id].created_at
          /\ \A id \in ScansOfAircraft(u, a) :
                (\A j \in DOMAIN list : list[j].id # id) =>
                    scans[id].created_at <= list[i].created_at

\* C18: list_for_aircraft answers NotFound when the aircraft is not the
\* caller's; otherwise it returns scans of the caller for that aircraft only,
\* newest first by creation time, never more than limit of them, and the
\* newest ones when there are more.  The code breaks it for limit = 0, which
\* cursor.limit reads as no limit: every scan is returned.
C18_HistoryNewestFirstBounded ==
    [][HistoryCalled =>
          LET u == returned'.user
              a == returned'.aircraft_id
              limit == returned'.limit
              list == returned'.response.v
          IN  IF ~(a \in DOMAIN aircrafts /\ aircrafts[a].user_id = u)
              THEN returned'.result = "NotFound"
              ELSE /\ returned'.result = "OK"
                   /\ NewestOf(list, u, a)
                   /\ Len(list) <= limit
                   /\ Len(list) < limit => Len(list) = Cardinality(ScansOfAircraft(u, a))]_vars

\* The step is a whole get_ocr_quota_status call
QuotaStatusCalled ==
    /\ call' = call
    /\ returned'.op = "quota_status"

\* C19: quota_status reports as used the number of the caller's scans created
\* in the calendar month of the call; for a plan limit N it reports limit = N
\* and remaining = N - used, and for the unlimited sentinel -1 it reports the
\* string "unlimited" as limit and as remaining, never a number; it changes no
\* scan, aircraft or downstream record.
C19_QuotaStatusReport ==
    [][QuotaStatusCalled =>
          LET u == returned'.user
              N == UserDocs[u].limits.ocr_per_month
              used == Cardinality(ScansThisMonth(u, clock'))
              r == returned'.response
          IN  /\ returned'.result = "OK"
              /\ r.used = Num(used)
              /\ N # -1 => (r.limit = Num(N) /\ r.remaining = Num(N - used))
              /\ N = -1 => (r.limit = Str("unlimited") /\ r.remaining = Str("unlimited"))
              /\ scans' = scans /\ downstream' = downstream /\ aircraft' = aircraft]_vars

\* The user on the unlimited plan has just been told "unlimited", with a usage
\* that has reached the other plan's limit and leaves out the scans of an
\* earlier month
C19_Witness ==
    /\ returned.op = "quota_status" /\ returned.user = "u2"
    /\ returned.response.remaining = Str("unlimited")
    /\ returned.response.used.v >= PlanLimit
    /\ returned.response.used.v
          < Cardinality({id \in DOMAIN scans : scans[id].user_id = "u2"})

\* C20: a submit rejected with NotFound or QuotaExceeded stores no scan, issues
\* no extraction request and leaves every stored record, hence the caller's
\* usage, as it was; a submit for an aircraft that is not the caller's is
\* answered NotFound whatever the caller's usage; and every submit that passed
\* both checks issues exactly one extraction request before it returns.  The
\* code breaks the last part: the scan id is the clock reading, and the
\* insert_one of a submit that reads the instant of a stored scan raises before
\* any request is issued.
C20_RejectedSubmitFrame ==
    [][/\ \A u \in Users, a \in AircraftIds :
             SubmitChecked(u, a) =>
                 /\ ~(a \in DOMAIN aircrafts /\ aircrafts[a].user_id = u) =>
                       (returned'.op = "submit" /\ returned'.result = "NotFound")
                 /\ (returned'.op = "submit"
                     /\ returned'.result \in {"NotFound", "QuotaExceeded"}) =>
                       /\ call' = call
                       /\ returned'.reply = NoReply
                       /\ scans' = scans /\ downstream' = downstream
       /\ \A p \in config.procs :
             call[p].op = "submit" =>
                 /\ call'[p].op = "idle" => returned'.reply # NoReply
                 /\ call'[p].reply # call[p].reply =>
                       \/ call'[p].op = "idle"
                       \/ call[p].pc = "analyze" /\ call[p].reply = NoReply]_vars


\* The entries of an extraction's list whose key is present and not empty
EntriesWithKey(ed, list, key) ==
    LET coll == GetD(ed, list, Lst(<<>>))
    IN  IF coll.t # "list" THEN <<>>
        ELSE SelectSeq(coll.v,
                 LAMBDA e : e.t = "obj" /\ Get(e.v, key) \notin {Null, Str("")})

\* The records appended to a collection by the step are one per entry, in
\* order, each carrying the key of its entry and the scan as provenance
CreatedOnePerEntry(before, after, entries, key, scan_id) ==
    /\ Len(after) = Len(before) + Len(entries)
    /\ \A i \in 1..Len(before) : after[i] = before[i]
    /\ \A i \in 1..Len(entries) :
          /\ after[Len(before) + i][key] = entries[i].v[key]
          /\ after[Len(before) + i].ocr_scan_id = scan_id

\* C21: an apply that succeeds creates exactly one compliance record per
\* directive entry with a non-empty reference_number, one part record per part
\* entry with a non-empty part_number and one STC record per entry with a
\* non-empty stc_number; an entry with an empty key is skipped without error;
\* and the counts it returns are the numbers of records it created.  Checked
\* where calls run one after the other and no write fails, so that an apply
\* that gets past its inserts succeeds.
C21_OneRecordPerKeyedEntry ==
    [][\A p \in config.procs :
          LET c == call[p]
              ed == c.scan.extracted_data.v
              directives == EntriesWithKey(ed, "ad_sb_references", "reference_number")
              parts == EntriesWithKey(ed, "parts_replaced", "part_number")
              stcs == EntriesWithKey(ed, "stc_references", "stc_number")
          IN  /\ (/\ c.op = "apply" /\ c.pc = "records"
                  /\ call'[p].op = "apply" /\ call'[p].pc \in {"elt_find", "finish"}) =>
                     /\ CreatedOnePerEntry(adsb_records, adsb_records', directives,
                                           "reference_number", c.scan_id)
                     /\ CreatedOnePerEntry(part_records, part_records', parts,
                                           "part_number", c.scan_id)
                     /\ CreatedOnePerEntry(stc_records, stc_records', stcs,
                                           "stc_number", c.scan_id)
              /\ (/\ c.op = "apply" /\ c.pc = "finish" /\ call'[p] # c
                  /\ returned'.result = "OK") =>
                     /\ returned'.response.adsb_records = Len(directives)
                     /\ returned'.response.part_records = Len(parts)
                     /\ returned'.response.stc_records = Len(stcs)
                     /\ Len(scans'[c.scan_id].applied_adsb_ids) = Len(directives)
                     /\ Len(scans'[c.scan_id].applied_part_ids) = Len(parts)
                     /\ Len(scans'[c.scan_id].applied_stc_ids) = Len(stcs)]_vars

\* An apply has succeeded on an extraction with two directive entries, one of
\* them without a reference_number: one compliance record, one STC record
C21_Witness ==
    /\ returned.op = "apply" /\ returned.result = "OK"
    /\ returned.scan_id \in DOMAIN scans
    /\ LET scan == scans[returned.scan_id]
       IN  /\ scan.extracted_data.t = "obj"
           /\ GetD(scan.extracted_data.v, "ad_sb_references", Lst(<<>>)).t = "list"
           /\ Len(GetD(scan.extracted_data.v, "ad_sb_references", Lst(<<>>)).v) = 2
           /\ returned.response.adsb_records = 1
           /\ returned.response.stc_records = 1
           /\ Len(FromScan(adsb_records, returned.scan_id)) = 1
           /\ Len(FromScan(stc_records, returned.scan_id)) = 1


\* C22: whatever the interleaving of the apply calls made on scans of one
\* aircraft whose extraction holds a detected ELT block, there is one ELT
\* record per (user, aircraft): the first apply creates it and the later ones
\* update it.  The code breaks it: the record is looked up and, when none is
\* found, inserted in two separate database calls, so two concurrent applies
\* both find none and both insert.
C22_OneEltRecordPerAircraft ==
    \A i, j \in 1..Len(elt_records) :
        (/\ elt_records[i].user_id = elt_records[j].user_id
         /\ elt_records[i].aircraft_id = elt_records[j].aircraft_id) => i = j


\* The text left when the code-fence markers, each with the white space that
\* follows it, are removed and the result is trimmed
WithoutFences(toks) == Strip(RemoveFence(RemoveFence(toks, FenceJson), Fence))

\* What sanitize is stated to return for a text
StatedClean(toks) ==
    LET r == WithoutFences(toks)
        opens == {i \in 1..Len(r) : r[i] = "{"}
        closes == {i \in 1..Len(r) : r[i] = "}"}
        first == CHOOSE i \in opens : \A j \in opens : i <= j
        last == CHOOSE i \in closes : \A j \in closes : i >= j
    IN  IF opens # {} /\ closes # {} /\ first < last
        THEN SubSeq(r, first, last)
        ELSE r

\* C23: for the text of every reply a submit call receives, sanitize removes
\* the code-fence markers and returns what lies from the first "{" to the last
\* "}" of the remaining text; when that text holds no brace pair - no "{", no
\* "}", or the last "}" before the first "{" - it returns the trimmed text
\* unchanged.  The code breaks the last case: it tests only that both braces
\* occur, and the slice from the first "{" to a "}" that precedes it is empty.
C23_SanitizeBraceSpanOrTrimmed ==
    \A p \in config.procs :
        (call[p].op = "submit" /\ call[p].reply.kind = "text") =>
            clean_json_response(call[p].reply.raw) = StatedClean(call[p].reply.raw)


\* The ids of the records of a collection whose provenance is the scan
IdsFromScan(records, scan_id) ==
    {Num(records[i].id) : i \in {j \in 1..Len(records) : records[j].ocr_scan_id = scan_id}}

\* The ids listed in a field of a scan
Listed(ids) == {ids[i] : i \in 1..Len(ids)}

\* C24: for every applied scan, the ids in its applied_* fields are exactly the
\* ids of the downstream records whose ocr_scan_id is that scan - after an
\* apply that failed midway and was retried, and after concurrent applies, too.
\* The code breaks it: the records written before a failing write stay in the
\* stores and are listed nowhere, the retry inserting and listing new ones.
C24_AppliedIdsAreTheScansRecords ==
    \A id \in DOMAIN scans :
        scans[id].status = "APPLIED" =>
            /\ Listed(scans[id].applied_adsb_ids) = IdsFromScan(adsb_records, id)
            /\ Listed(scans[id].applied_part_ids) = IdsFromScan(part_records, id)
            /\ Listed(scans[id].applied_stc_ids) = IdsFromScan(stc_records, id)
            /\ {scans[id].applied_maintenance_id} \ {Null}
                   = IdsFromScan(maintenance_records, id)
            /\ {scans[id].applied_elt_id} \ {Null} = IdsFromScan(elt_records, id)


\* The value of a key in every entry of an extraction's list, the empty string
\* where the entry has none
KeysOfEntries(ed, list, key) ==
    LET coll == GetD(ed, list, Lst(<<>>))
    IN  [i \in 1..Len(coll.v) |-> GetD(coll.v[i].v, key, Str(""))]

NonEmpty(x) == x \notin {Null, Str("")}

\* C25: an apply that succeeds creates exactly one maintenance record when the
\* extraction has a non-empty description or work_order_number, and none
\* otherwise; the record lists the part_number of every part entry and the
\* reference_number of every directive entry of the extraction, and its
\* ocr_scan_id is the scan.  Checked where calls run one after the other and no
\* write fails.
C25_MaintenanceRecordWhenDescribed ==
    [][\A p \in config.procs :
          LET c == call[p]
              ed == c.scan.extracted_data.v
              wanted == \/ NonEmpty(Get(ed, "description"))
                        \/ NonEmpty(Get(ed, "work_order_number"))
              n == Len(maintenance_records)
          IN  /\ (/\ c.op = "apply" /\ c.pc = "records"
                  /\ call'[p].op = "apply" /\ call'[p].pc \in {"elt_find", "finish"}) =>
                     IF wanted
                     THEN /\ Len(maintenance_records') = n + 1
                          /\ SubSeq(maintenance_records', 1, n) = maintenance_records
                          /\ maintenance_records'[n + 1].ocr_scan_id = c.scan_id
                          /\ maintenance_records'[n + 1].parts_replaced =
                                 KeysOfEntries(ed, "parts_replaced", "part_number")
                          /\ maintenance_records'[n + 1].regulatory_references =
                                 KeysOfEntries(ed, "ad_sb_references", "reference_number")
                          /\ call'[p].applied_ids.maintenance_id =
                                 Num(maintenance_records'[n + 1].id)
                     ELSE /\ maintenance_records' = maintenance_records
                          /\ call'[p].applied_ids.maintenance_id = Null
              /\ (c.op = "apply" /\ c.pc # "records") =>
                     maintenance_records' = maintenance_records
              /\ (/\ c.op = "apply" /\ c.pc = "finish" /\ call'[p] # c
                  /\ returned'.result = "OK") =>
                     /\ returned'.response.maintenance_record = c.applied_ids.maintenance_id
                     /\ (returned'.response.maintenance_record # Null) <=> wanted]_vars

\* An apply has succeeded on an extraction with a description, two directive
\* entries - one without a reference_number - and a part: one maintenance
\* record, which lists both directives, and one compliance record
C25_Witness ==
    /\ returned.op = "apply" /\ returned.result = "OK"
    /\ returned.response.maintenance_record # Null
    /\ Len(maintenance_records) = 1
    /\ maintenance_records[1].ocr_scan_id = returned.scan_id
    /\ Len(maintenance_records[1].regulatory_references) = 2
    /\ \E i \in 1..2 : maintenance_records[1].regulatory_references[i] = Str("")
    /\ Len(adsb_records) = 1


\* A submit call holds the normalization of an invoice payload whose line items
\* are a list of mappings
NormalizedInvoice(c) ==
    /\ c.op = "submit" /\ c.pc = "respond"
    /\ c.document_type = "invoice"
    /\ ParsedReply(c).ok /\ ParsedReply(c).val.t = "obj"
    /\ LET parts == GetD(ParsedReply(c).val.v, "parts", Lst(<<>>))
       IN  parts.t = "list" /\ \A i \in 1..Len(parts.v) : parts.v[i].t = "obj"

\* C26: normalizing an invoice maps each line item to one part reference whose
\* price is the line total when the item has one - a line total of 0 included -
\* and the unit price otherwise, and the directive and STC sub-collections of
\* the result are empty.  The code breaks it on a line total of 0: it takes
\* "total_price or unit_price", and 0 is falsy.
C26_InvoicePriceIsLineTotal ==
    \A p \in config.procs :
        NormalizedInvoice(call[p]) =>
            LET in == GetD(ParsedReply(call[p]).val.v, "parts", Lst(<<>>)).v
                out == call[p].ocr_result.extracted_data.v
            IN  /\ out["ad_sb_references"] = Lst(<<>>)
                /\ out["stc_references"] = Lst(<<>>)
                /\ Len(out["parts_replaced"].v) = Len(in)
                /\ \A i \in 1..Len(in) :
                      out["parts_replaced"].v[i].v["price"] =
                          IF Get(in[i].v, "total_price") # Null
                          THEN safe_float(in[i].v["total_price"])
                          ELSE safe_float(Get(in[i].v, "unit_price"))


\* C27: the normalization of an STC reply holds exactly one STC reference and
\* empty directive and part sub-collections; and an apply of a scan of type stc
\* creates at most one STC record, no maintenance, compliance or part record,
\* and leaves the hour counters of every aircraft as they are.  Checked where
\* calls run one after the other.
C27_StcScanCreatesOnlyAnStcRecord ==
    [][\A p \in config.procs :
          LET c == call[p]
          IN  /\ (/\ c.op = "submit" /\ c.pc = "respond"
                  /\ c.document_type = "stc") =>
                     LET ed == c.ocr_result.extracted_data.v
                     IN  /\ c.ocr_result.extracted_data.t = "obj"
                         /\ DOMAIN ed = {"stc_references", "ad_sb_references",
                                         "parts_replaced"}
                         /\ ed["stc_references"].t = "list"
                         /\ Len(ed["stc_references"].v) = 1
                         /\ ed["ad_sb_references"] = Lst(<<>>)
                         /\ ed["parts_replaced"] = Lst(<<>>)
              /\ (/\ c.op = "apply" /\ c.scan # Null
                  /\ c.scan.document_type = "stc") =>
                     /\ maintenance_records' = maintenance_records
                     /\ adsb_records' = adsb_records
                     /\ part_records' = part_records
                     /\ aircrafts' = aircrafts
                     /\ Len(stc_records') <= Len(stc_records) + 1
                     /\ c.pc # "records" => stc_records' = stc_records
                     /\ (call'[p] # c /\ returned'.result = "OK") =>
                           /\ returned'.response.maintenance_record = Null
                           /\ returned'.response.adsb_records = 0
                           /\ returned'.response.part_records = 0
                           /\ returned'.response.stc_records <= 1]_vars

\* A scan of type stc has been applied: one STC record, no other record, the
\* aircraft's counters as they were
C27_Witness ==
    /\ returned.op = "apply" /\ returned.result = "OK"
    /\ returned.scan_id \in DOMAIN scans
    /\ scans[returned.scan_id].document_type = "stc"
    /\ returned.response.stc_records = 1
    /\ Len(stc_records) = 1 /\ stc_records[1].stc_number = Str("SA02345NY")
    /\ maintenance_records = <<>> /\ adsb_records = <<>> /\ part_records = <<>>
    /\ aircrafts[scans[returned.scan_id].aircraft_id].airframe_hours = Num(1500)


\* A stored extraction with nothing to apply: no description or
\* work_order_number, no entry with its key, no detected ELT block, no hour
\* reading
NothingToApply(extracted_data) ==
    extracted_data.t = "obj" =>
        LET ed == extracted_data.v
        IN  /\ ~NonEmpty(Get(ed, "description"))
            /\ ~NonEmpty(Get(ed, "work_order_number"))
            /\ EntriesWithKey(ed, "ad_sb_references", "reference_number") = <<>>
            /\ EntriesWithKey(ed, "parts_replaced", "part_number") = <<>>
            /\ EntriesWithKey(ed, "stc_references", "stc_number") = <<>>
            /\ ~EltDetected(ed)
            /\ \A h \in HourKeys : Get(ed, h) = Null

\* C28: an apply of a completed scan whose extraction has nothing to apply
\* succeeds with a null maintenance id and zero counts, stores empty id lists
\* and leaves the scan APPLIED, and an apply of that scan made afterwards is
\* rejected with InvalidState.  Checked where calls run one after the other.
\* The code breaks it on a completed scan whose stored extraction is null (see
\* C2): extracted_data.get raises and the apply answers 500.
C28_EmptyApplySucceedsOnce ==
    [][\A id \in ScanIds :
          (ApplyReturns(id) /\ NothingToApply(scans[id].extracted_data)) =>
              /\ scans[id].status = "COMPLETED" =>
                    /\ returned'.result = "OK"
                    /\ returned'.response =
                           [maintenance_record |-> Null, adsb_records |-> 0,
                            part_records |-> 0, stc_records |-> 0,
                            elt_updated |-> FALSE]
                    /\ downstream' = downstream
                    /\ scans'[id].status = "APPLIED"
                    /\ scans'[id].applied_maintenance_id = Null
                    /\ scans'[id].applied_adsb_ids = <<>>
                    /\ scans'[id].applied_part_ids = <<>>
                    /\ scans'[id].applied_stc_ids = <<>>
                    /\ scans'[id].applied_elt_id = Null
              /\ scans[id].status = "APPLIED" =>
                    /\ returned'.result = "InvalidState"
                    /\ scans' = scans /\ downstream' = downstream]_vars


\* The loops of apply run to their end on the extraction
LoopsComplete(ed) ==
    /\ \A list \in {"ad_sb_references", "parts_replaced", "stc_references"} :
          ~IterRaises(GetD(ed, list, Lst(<<>>)))
    /\ ~EltRaises(ed)

\* C29: an apply with update_aircraft_hours false changes the hour counters of
\* no aircraft, whatever readings the extraction holds; and what an apply
\* creates and does to its scan is the same with the flag false as with the
\* flag true: whether it succeeds, the records it creates and lists, and the
\* scan's transition depend on the stored scan alone.  Checked where calls run
\* one after the other, with both values of the flag.
C29_FlagOnlyGuardsHours ==
    [][\A p \in config.procs :
          LET c == call[p]
              ed == c.scan.extracted_data.v
              id == c.scan_id
          IN  /\ (/\ IF c.op = "idle" THEN call'[p].op = "apply" ELSE c.op = "apply"
                  /\ ~(IF c.op = "idle" THEN call'[p] ELSE c).update_aircraft_hours) =>
                     aircrafts' = aircrafts
              /\ (c.op = "apply" /\ call'[p].op = "idle") =>
                     /\ returned'.result = IF LoopsComplete(ed) THEN "OK" ELSE "ServiceError"
                     /\ returned'.result = "ServiceError" => scans' = scans
                     /\ returned'.result = "OK" =>
                           /\ scans'[id].status = "APPLIED"
                           /\ returned'.response.adsb_records =
                                  Len(EntriesWithKey(ed, "ad_sb_references", "reference_number"))
                           /\ returned'.response.part_records =
                                  Len(EntriesWithKey(ed, "parts_replaced", "part_number"))
                           /\ returned'.response.stc_records =
                                  Len(EntriesWithKey(ed, "stc_references", "stc_number"))
                           /\ (returned'.response.maintenance_record # Null) <=>
                                  (\/ NonEmpty(Get(ed, "description"))
                                   \/ NonEmpty(Get(ed, "work_order_number")))
                           /\ returned'.response.elt_updated = EltDetected(ed)
                           /\ RecordsOfScan(scans'[id].applied_adsb_ids, adsb_records, id)
                           /\ RecordsOfScan(scans'[id].applied_part_ids, part_records, id)
                           /\ RecordsOfScan(scans'[id].applied_stc_ids, stc_records, id)
                           /\ Len(scans'[id].applied_adsb_ids) = returned'.response.adsb_records
                           /\ Len(scans'[id].applied_part_ids) = returned'.response.part_records
                           /\ Len(scans'[id].applied_stc_ids) = returned'.response.stc_records]_vars

\* An apply with the flag false has succeeded on an extraction with the
\* airframe reading 1600: a compliance and a part record from the scan, the
\* scan APPLIED, the aircraft's counter still 1500
C29_Witness ==
    /\ returned.op = "apply" /\ returned.result = "OK"
    /\ returned.scan_id \in DOMAIN scans
    /\ LET scan == scans[returned.scan_id]
       IN  /\ scan.status = "APPLIED"
           /\ Get(scan.extracted_data.v, "airframe_hours") = Num(1600)
           /\ aircrafts[scan.aircraft_id].airframe_hours = Num(1500)
           /\ returned.response.adsb_records = 1
           /\ returned.response.part_records = 1


\* C30: for a user whose plan sets a limit N other than the sentinel -1, in
\* every state reachable through any interleaving of concurrent submit calls the
\* scans of the user created in the current calendar month are at most N.  The
\* code breaks it: the scans are counted and the new scan is inserted in two
\* separate database calls, so two concurrent submits both count N - 1 scans
\* and both insert.
C30_ScansOfMonthWithinLimit ==
    \A u \in Users :
        LET N == UserDocs[u].limits.ocr_per_month
        IN  N # -1 => Cardinality(ScansThisMonth(u, clock)) <= N


\* The scans of user u stored by the step
CreatedByStep(u) ==
    {id \in DOMAIN scans' : id \notin DOMAIN scans /\ scans'[id].user_id = u}

\* C31: within one calendar month the usage counted against the quota - the
\* count checked by submit and reported as used by quota_status - is the number
\* of scans the user created in the month: it grows by one with every scan
\* created, whatever becomes of the scan, and no other step changes it; a delete
\* in particular does not lower it.  The code breaks it: the usage is a count
\* of the scans stored, and delete removes the scan from the store.
C31_UsageIsScansCreated ==
    [][\A u \in Users :
          (clock' \div TicksPerMonth = clock \div TicksPerMonth) =>
              Cardinality(ScansThisMonth(u, clock))' =
                  Cardinality(ScansThisMonth(u, clock)) + Cardinality(CreatedByStep(u))]_vars


\* No applied id is recorded on the scan
NoAppliedIdsOn(scan) ==
    /\ scan.applied_maintenance_id = Null
    /\ scan.applied_adsb_ids = <<>>
    /\ scan.applied_part_ids = <<>>
    /\ scan.applied_stc_ids = <<>>

\* C32: in every state reached by submit and apply calls, however interleaved,
\* a scan whose status is not APPLIED has empty applied id lists and a null
\* applied maintenance id.
C32_AppliedIdsOnlyOnAppliedScan ==
    \A id \in DOMAIN scans :
        scans[id].status # "APPLIED" => NoAppliedIdsOn(scans[id])


\* C33: in every reachable state a scan that is PROCESSING or FAILED has null
\* raw_text and null extracted_data, and a scan that is COMPLETED or APPLIED has
\* both non-null.  The code breaks it twice: a reply that is the JSON literal
\* null is stored COMPLETED with a null extraction, and a scan stored COMPLETED
\* whose response cannot be built is then marked FAILED with its text and
\* extraction left in place.
C33_TextAndDataFollowStatus ==
    \A id \in DOMAIN scans :
        /\ scans[id].status \in {"PROCESSING", "FAILED"} =>
              scans[id].raw_text = Null /\ scans[id].extracted_data = Null
        /\ scans[id].status \in {"COMPLETED", "APPLIED"} =>
              scans[id].raw_text # Null /\ scans[id].extracted_data # Null


\* The document types that have a normalization of their own
NormalizedTypes == {"maintenance_report", "stc", "invoice"}

\* C34: the extraction stored for a scan of type maintenance_report, stc or
\* invoice holds no ELT block, whatever the backend replied; so an apply of such
\* a scan never looks up, creates or updates an ELT record and reports
\* elt_updated = false: only a scan of a pass-through type (logbook, other)
\* reaches the ELT upsert.
C34_NoEltFromNormalizedTypes ==
    [][\A p \in config.procs :
          LET c == call[p]
          IN  /\ (/\ c.op = "submit" /\ c.pc = "respond"
                  /\ c.document_type \in NormalizedTypes) =>
                     /\ c.ocr_result.extracted_data.t = "obj"
                     /\ "elt_data" \notin DOMAIN c.ocr_result.extracted_data.v
              /\ (/\ c.op = "apply" /\ c.scan # Null
                  /\ c.scan.document_type \in NormalizedTypes) =>
                     /\ c.pc \notin {"elt_find", "elt_write"}
                     /\ elt_records' = elt_records
                     /\ (call'[p] # c /\ returned'.result = "OK") =>
                           /\ returned'.response.elt_updated = FALSE
                           /\ scans'[c.scan_id].applied_elt_id = Null]_vars

\* A maintenance_report whose reply held a detected ELT block has been applied:
\* no ELT record, elt_updated false
C34_Witness ==
    /\ returned.op = "apply" /\ returned.result = "OK"
    /\ returned.scan_id \in DOMAIN scans
    /\ scans[returned.scan_id].document_type = "maintenance_report"
    /\ scans[returned.scan_id].raw_text = Text(<<"{", "Elt", "}">>)
    /\ returned.response.elt_updated = FALSE
    /\ elt_records = <<>>


\* C35: scan ids are unique: every submit that has passed the aircraft and
\* quota checks stores a scan of its own, under an id no stored scan has, and
\* goes on to its extraction - two submits that read the same clock instant
\* included.  The code breaks it: the id is the clock reading, and the insert of
\* a second scan with the reading of the first raises; that submit stores no
\* scan and runs no extraction.
C35_EverySubmitStoresItsOwnScan ==
    [][\A p \in config.procs :
          (call[p].op = "submit" /\ call[p].pc = "insert" /\ call'[p] # call[p]) =>
              /\ call'[p].op = "submit" /\ call'[p].pc = "analyze"
              /\ call'[p].scan_id \notin DOMAIN scans
              /\ call'[p].scan_id \in DOMAIN scans'
              /\ scans'[call'[p].scan_id].user_id = call[p].user
              /\ \A id \in DOMAIN scans : scans'[id] = scans[id]]_vars


\* The records a step appends to a collection carry the user and the aircraft,
\* and the records the collection held are unchanged
AppendedOwnedBy(before, after, u, a) ==
    /\ Len(after) >= Len(before)
    /\ \A i \in 1..Len(before) : after[i] = before[i]
    /\ \A i \in (Len(before) + 1)..Len(after) :
          after[i].user_id = u /\ after[i].aircraft_id = a

\* C36: every maintenance, compliance, part, STC and ELT record an apply
\* creates carries the user id of the scan's owner and the aircraft id of the
\* scan; an apply changes the hour counters of no aircraft but the scan's and no
\* ELT record but that of the owner and the scan's aircraft; and the aircraft of
\* every stored scan belongs to the scan's owner.
C36_RecordsCarryOwnerAndAircraft ==
    [][/\ \A p \in config.procs :
             LET c == call[p]
             IN  (c.op = "apply" /\ c.scan # Null) =>
                     LET u == c.scan.user_id
                         a == c.scan.aircraft_id
                     IN  /\ AppendedOwnedBy(maintenance_records, maintenance_records', u, a)
                         /\ AppendedOwnedBy(adsb_records, adsb_records', u, a)
                         /\ AppendedOwnedBy(part_records, part_records', u, a)
                         /\ AppendedOwnedBy(stc_records, stc_records', u, a)
                         /\ Len(elt_records') >= Len(elt_records)
                         /\ \A i \in 1..Len(elt_records') :
                               (i > Len(elt_records) \/ elt_records'[i] # elt_records[i]) =>
                                   elt_records'[i].user_id = u /\ elt_records'[i].aircraft_id = a
                         /\ \A x \in DOMAIN aircrafts : x # a => aircrafts'[x] = aircrafts[x]
                         /\ DOMAIN aircrafts' = DOMAIN aircrafts
       /\ \A id \in DOMAIN scans' :
             /\ scans'[id].aircraft_id \in DOMAIN aircrafts'
             /\ aircrafts'[scans'[id].aircraft_id].user_id = scans'[id].user_id]_vars

\* u2 has applied a scan of its aircraft a2: the records created carry u2 and
\* a2, and the counters of a1 are as they were
C36_Witness ==
    /\ returned.op = "apply" /\ returned.result = "OK" /\ returned.user = "u2"
    /\ Len(adsb_records) = 1 /\ adsb_records[1].user_id = "u2"
    /\ adsb_records[1].aircraft_id = "a2"
    /\ Len(part_records) = 1 /\ part_records[1].user_id = "u2"
    /\ part_records[1].aircraft_id = "a2"
    /\ aircrafts["a2"].airframe_hours = Num(1600)
    /\ aircrafts["a1"].airframe_hours = Num(1500)

(***************************************************************************)
(* C37: an aircraft created with create_aircraft is afterwards returned to *)
(* its owner by get_aircraft and by the aircraft list, is accepted as      *)
(* owned by submit and by the component settings, and is changed by        *)
(* update_aircraft and removed by delete_aircraft; to any other user each  *)
(* of these calls answers NotFound.                                        *)
(***************************************************************************)
\* The aircraft that create_aircraft stored
Created == DOMAIN aircrafts \cap CreatedIds

\* The answer the claim gives user u on aircraft a
OwnerAnswer(u, a) == IF aircrafts[a].user_id = u THEN "OK" ELSE "NotFound"

\* C37: every call on a created aircraft answers its owner and refuses the rest
C37_CreatedAircraftServesItsOwner ==
    [][\A p \in Procs, u \in Users, a \in Created :
          /\ GetAircraft(p, u, a) => returned'.result = OwnerAnswer(u, a)
          /\ GetComponentSettings(p, u, a) => returned'.result = OwnerAnswer(u, a)
          /\ DeleteAircraft(p, u, a) => returned'.result = OwnerAnswer(u, a)
          /\ \A update_data \in HourEdits :
                UpdateAircraft(p, u, a, update_data) => returned'.result = OwnerAnswer(u, a)
          /\ \A dt \in config.doctypes :
                SubmitCheck(p, u, a, dt) =>
                    ((returned'.result = "NotFound") <=> (aircrafts[a].user_id # u))
          /\ ListAircraft(p, u) =>
                ((\E i \in DOMAIN returned'.response.v : returned'.response.v[i] = a)
                    <=> (aircrafts[a].user_id = u))]_vars

(***************************************************************************)
(* C38: for a user whose plan caps aircraft at N (N not the sentinel -1),  *)
(* the number of aircraft the user owns never exceeds N after any          *)
(* interleaving of create_aircraft calls; a create at the cap, or with a   *)
(* registration the user already has (after upper-casing and trimming), is *)
(* rejected and stores nothing.                                            *)
(***************************************************************************)
\* User u owns as many aircraft as the plan allows
AtCap(u) == MaxAircrafts(u) # -1 /\ CountAircraft(u) >= MaxAircrafts(u)

\* C38: no step takes a capped user above the cap, and a create_aircraft call
\* stores an aircraft only below the cap and under a registration that is new
C38_CreateKeepsCapAndRegistrations ==
    [][/\ \A u \in Users :
             (MaxAircrafts(u) # -1 /\ CountAircraft(u) <= MaxAircrafts(u))
                 => CountAircraft(u)' <= MaxAircrafts(u)
       /\ \A p \in Procs :
             (call[p].op = "create_aircraft" /\ aircrafts' # aircrafts /\ call'[p].op = "idle")
                 => /\ ~ AtCap(call[p].user)
                    /\ ~ RegistrationExists(call[p].user, call[p].registration)]_vars

====
